---- MODULE Spec2Model ----
(***************************************************************************)
(* Model of skrl's training orchestration: the Trainer's scope partitioner *)
(* (skrl/trainers/torch/base.py), the single-agent training loop, and the  *)
(* lifecycle methods of the DDPG and SARSA agents                          *)
(* (skrl/agents/torch/ddpg/ddpg.py, skrl/agents/torch/sarsa/sarsa.py).     *)
(*                                                                         *)
(* Two specifications:                                                     *)
(*   SpecSetup  Trainer construction and generate_equally_spaced_scopes    *)
(*   Spec       Trainer.single_agent_train driving one DDPG or SARSA agent *)
(***************************************************************************)
EXTENDS Integers, Sequences, FiniteSets, TLC

(***************************************************************************)
(* Bounds of the model.                                                    *)
(***************************************************************************)
MaxEnvs == 4
MaxAgents == 3
MaxConstructions == 2
MaxTimesteps == 3
Capacity == 2
MaxSecondary == 1
MaxParam == 1
MaxDecay == 2
MaxQ == 1

\* sizes a caller may put in an explicit agents_scope list (any integers)
ScopeSizes == (0 - 1)..MaxEnvs

VARIABLES
    \* ---- Trainer construction ------------------------------------------
    num_envs,        \* env.num_envs
    agents_is_list,  \* whether `agents` is a list/tuple or a bare agent
    agents_len,      \* len(agents) when it is a list
    scope_list,      \* the caller's agents_scope list object (mutable)
    trainers,        \* one record per Trainer(...) call made so far
    generated,       \* result of generate_equally_spaced_scopes(...)
    \* ---- Trainer.single_agent_train -----------------------------------
    cfg,             \* the trainer's and the agent's configuration
    pc,              \* position of the trainer in single_agent_train
    timestep,        \* the loop variable
    locals,          \* states, actions, next_states, rewards, dones
    env_step_arg,    \* the actions the last env.step received
    memories,        \* the agent's memories, the primary one first
    agent,           \* the agent's mutable fields and call bookkeeping
    log,             \* the calls the trainer has made, in order
    env,             \* the environment's own count of the calls it received
    \* ---- a single call of a method, outside any loop -------------------
    call,            \* the receiver and the arguments of the call
    ret              \* what the call returned or raised, and the receiver after

setupVars == <<num_envs, agents_is_list, agents_len, scope_list, trainers, generated>>

loopVars == <<cfg, pc, timestep, locals, env_step_arg, memories, agent, log, env>>

unitVars == <<call, ret>>

vars == <<setupVars, loopVars, unitVars>>

(***************************************************************************)
(* Helpers: Python's sum() over a list of integers, and list repetition.   *)
(***************************************************************************)
RECURSIVE SumTo(_, _)
SumTo(s, i) == IF i = 0 THEN 0 ELSE SumTo(s, i - 1) + s[i]

Sum(s) == SumTo(s, Len(s))

Repeat(x, n) == [i \in 1..n |-> x]

\* a Python list of integer sizes, or of (lo, hi) tuples
Sizes(s) == [kind |-> "sizes", val |-> s]
Ranges(s) == [kind |-> "ranges", val |-> s]

\* Variant of generate_equally_spaced_scopes: the remainder goes to the first agent.
generate_scopes_remainder_first(n, m) ==
    IF m = 0 THEN [raised |-> "ZeroDivisionError", scopes |-> <<>>]
    ELSE LET scopes == Repeat(n \div m, m)
         IN  IF Sum(scopes) # 0
             THEN [raised |-> "none",
                   scopes |-> [scopes EXCEPT ![1] = @ + (n - Sum(scopes))]]
             ELSE [raised |-> "ValueError", scopes |-> <<>>]

(***************************************************************************)
(* generate_equally_spaced_scopes(num_envs, num_agents)                    *)
(* int(num_envs / num_agents) is the truncated quotient; both arguments    *)
(* are counts here (>= 0), where truncation is \div.  A zero divisor       *)
(* raises ZeroDivisionError before anything else happens.                  *)
(***************************************************************************)
generate_equally_spaced_scopes(n, m) ==
    IF m = 0 THEN [raised |-> "ZeroDivisionError", scopes |-> <<>>]
    ELSE LET scopes == Repeat(n \div m, m)
         IN  IF Sum(scopes) # 0
             THEN [raised |-> "none",
                   scopes |-> [scopes EXCEPT ![m] = @ + (n - Sum(scopes))]]
             ELSE [raised |-> "ValueError", scopes |-> <<>>]

\* Variant of AutoScopes: the remainder is dropped.
AutoScopesNoRemainder(n, m) ==
    LET scopes == Repeat(n \div m, m)
    IN  IF Sum(scopes) # 0
        THEN [raised |-> "none", scopes |-> scopes]
        ELSE [raised |-> "ValueError: more agents than environments", scopes |-> <<>>]

\* Variant of AutoScopes: the emptiness test sum(scopes) is missing.
AutoScopesNoCheck(n, m) ==
    LET scopes == Repeat(n \div m, m)
    IN  [raised |-> "none",
         scopes |-> [scopes EXCEPT ![m] = @ + (n - Sum(scopes))]]

(***************************************************************************)
(* Trainer._setup_agents, the branch for an empty agents_scope list:       *)
(* the same computation, written inline in the method.                     *)
(***************************************************************************)
AutoScopes(n, m) ==
    LET scopes == Repeat(n \div m, m)
    IN  IF Sum(scopes) # 0
        THEN [raised |-> "none",
              scopes |-> [scopes EXCEPT ![m] = @ + (n - Sum(scopes))]]
        ELSE [raised |-> "ValueError: more agents than environments", scopes |-> <<>>]

(***************************************************************************)
(* Trainer._setup_agents, "generate agents' scopes": the in-place loop     *)
(*     index += scope[i]; scope[i] = (index - scope[i], index)             *)
(***************************************************************************)
\* Variant of the cumulative loop: every range starts at 0.
CumulativeRangesFromZero(s) ==
    [i \in 1..Len(s) |-> <<0, SumTo(s, i)>>]

CumulativeRanges(s) ==
    [i \in 1..Len(s) |-> <<SumTo(s, i) - s[i], SumTo(s, i)>>]

\* Variant of ValidateScopes: the coverage test is missing.
ValidateScopesNoCoverage(list, nagents, n) ==
    IF Len(list.val) # nagents THEN "ValueError: scopes don't match agents"
    ELSE IF list.kind = "ranges" THEN "TypeError"
    ELSE "none"

(***************************************************************************)
(* Trainer._setup_agents, the validation of an explicit (non-empty) list.  *)
(* sum() of a list whose elements are tuples raises TypeError.             *)
(***************************************************************************)
ValidateScopes(list, nagents, n) ==
    IF Len(list.val) # nagents THEN "ValueError: scopes don't match agents"
    ELSE IF list.kind = "ranges" THEN "TypeError"
    ELSE IF Sum(list.val) # n THEN "ValueError: scopes don't cover environments"
    ELSE "none"

(***************************************************************************)
(* Trainer.__init__ followed by Trainer._setup_agents.  The result holds   *)
(* the exception raised ("none" when the constructor returns), the         *)
(* trainer's num_agents and agents_scope, and the content of the caller's  *)
(* list object afterwards: self.agents_scope is that very object unless    *)
(* the method rebinds the attribute to a new list.                         *)
(***************************************************************************)
setup_agents(is_list, nagents, list, n) ==
    LET Res(r, na, sc, caller) ==
            [given |-> list, raised |-> r, num_agents |-> na,
             agents_scope |-> sc, caller_list |-> caller]
    IN  IF ~is_list THEN Res("none", 1, list, list)
        ELSE IF nagents = 1 THEN Res("none", 1, Sizes(<<1>>), list)
        ELSE IF nagents > 1 THEN
            IF Len(list.val) = 0
            THEN LET a == AutoScopes(n, nagents)
                 IN  IF a.raised # "none"
                     THEN Res(a.raised, nagents, Sizes(<<>>), list)
                     ELSE Res("none", nagents, Ranges(CumulativeRanges(a.scopes)), list)
            ELSE LET v == ValidateScopes(list, nagents, n)
                 IN  IF v # "none"
                     THEN Res(v, nagents, list, list)
                     ELSE LET r == Ranges(CumulativeRanges(list.val))
                          IN  Res("none", nagents, r, r)
        ELSE Res("ValueError: a list of agents is expected", 0, list, list)

\* the num_agents argument used for the stand-alone function
NumAgentsArg == IF agents_is_list THEN agents_len ELSE 1

\* the training loop's variables while only constructors are exercised
LoopIdle ==
    /\ cfg = [agent |-> "none"]
    /\ pc = "idle"
    /\ timestep = 0
    /\ locals = <<>>
    /\ env_step_arg = <<>>
    /\ memories = <<>>
    /\ agent = <<>>
    /\ log = <<>>
    /\ env = <<>>

\* no single call is being made
UnitIdle ==
    /\ call = <<>>
    /\ ret = <<>>

(***************************************************************************)
(* SpecSetup                                                               *)
(***************************************************************************)
SeqsUpTo(S, n) == UNION {[1..k -> S] : k \in 0..n}

InitSetup ==
    /\ num_envs \in 0..MaxEnvs
    /\ agents_is_list \in BOOLEAN
    /\ agents_len \in IF agents_is_list THEN 0..MaxAgents ELSE {1}
    /\ scope_list \in {Sizes(s) : s \in SeqsUpTo(ScopeSizes, MaxAgents)}
    /\ trainers = <<>>
    /\ generated = [called |-> FALSE]
    /\ LoopIdle
    /\ UnitIdle

\* trainer = Trainer(env, agents, agents_scope=scope_list)
TrainerInit ==
    /\ Len(trainers) < MaxConstructions
    /\ LET r == setup_agents(agents_is_list, agents_len, scope_list, num_envs)
       IN  /\ trainers' = Append(trainers, r)
           /\ scope_list' = r.caller_list
    /\ UNCHANGED <<num_envs, agents_is_list, agents_len, generated, loopVars, unitVars>>

\* scopes = generate_equally_spaced_scopes(num_envs, num_agents)
GenerateScopes ==
    /\ ~generated.called
    /\ generated' = [called |-> TRUE, n |-> num_envs, m |-> NumAgentsArg,
                     result |-> generate_equally_spaced_scopes(num_envs, NumAgentsArg)]
    /\ UNCHANGED <<num_envs, agents_is_list, agents_len, scope_list, trainers, loopVars, unitVars>>

NextSetup == TrainerInit \/ GenerateScopes

SpecSetup == InitSetup /\ [][NextSetup]_vars

(***************************************************************************)
(* Values of the training loop.                                            *)
(*                                                                         *)
(* A tensor of observations is identified by the call that produced it:    *)
(* <<"reset", k>> is the result of the env.reset() made after k steps,     *)
(* <<"step", t>> the next_states of the env.step of timestep t.  Rewards   *)
(* are numbers; dones is a boolean vector with one entry per environment.  *)
(***************************************************************************)
EnvIds == {1, 2}
Rewards == {0, 1}
LearningStartChoices == {0, 2}    \* cfg["learning_starts"]
RandomChoices == {0, 1}           \* cfg["random_timesteps"]
GradientStepChoices == {1, 2}
DecayChoices == {<<>>, <<1>>}    \* cfg["exploration"]["timesteps"]: None or a number

\* DDPG_DEFAULT_CONFIG["exploration"], in thousandths
InitialScale == 1000
FinalScale == 1

ResetObs(k) == <<"reset", k>>
StepObs(t) == <<"step", t>>
Unset == <<"unset", 0>>
NoActions == [by |-> "none", states |-> Unset, noise |-> FALSE, scale |-> <<>>,
              clipped |-> FALSE]

\* the dones vectors env.step may return: no episode ended, or only the last one
DonesChoices == {[e \in EnvIds |-> FALSE], [e \in EnvIds |-> e = Cardinality(EnvIds)]}

any(dones) == \E e \in DOMAIN dones : dones[e]

\* a rewards shaper a user may configure: Callable(reward, timestep, timesteps)
rewards_shaper(r, t, T) == 10 * r + t + T

(***************************************************************************)
(* ReplayMemory (spec.md 3 and 4.1): a ring of Capacity slots, a write     *)
(* cursor and a fill count.  A slot holds one batch of transitions (one    *)
(* row per environment of the writer's scope).                             *)
(***************************************************************************)
\* a memory of c slots
NewMemoryOf(c) == [rows |-> [i \in 0..(c - 1) |-> <<>>], cursor |-> 0, fill_count |-> 0]

NewMemory == NewMemoryOf(Capacity)

\* the number of slots of a memory
capacity(mem) == Cardinality(DOMAIN mem.rows)

add_samples(mem, row) ==
    [rows |-> [mem.rows EXCEPT ![mem.cursor] = <<row>>],
     cursor |-> (mem.cursor + 1) % capacity(mem),
     fill_count |-> IF mem.fill_count < capacity(mem) THEN mem.fill_count + 1
                    ELSE capacity(mem)]

\* sample(names, batch_size): reads the slot drawn, changes nothing
sample(mem, i) == mem.rows[i][1]

SampleChoices(mems) ==
    IF Len(mems) > 0 /\ mems[1].fill_count > 0 THEN 0..(mems[1].fill_count - 1) ELSE {0}

(***************************************************************************)
(* Agent (base class): record_transition and post_interaction only track   *)
(* data and write checkpoints; the model counts the calls.                 *)
(***************************************************************************)
Agent_record_transition(ag) == [ag EXCEPT !.base_record_calls = @ + 1]

Agent_post_interaction(ag) == [ag EXCEPT !.base_post_calls = @ + 1]

NewAgent ==
    [exploration_timesteps |-> cfg.exploration_timesteps,
     current |-> [set |-> FALSE],
     act_out |-> [t |-> 0 - 1],
     record_out |-> [t |-> 0 - 1],
     post_out |-> [t |-> 0 - 1],
     sampled |-> <<>>,
     samples |-> 0, critic_steps |-> 0, policy_steps |-> 0,
     target_policy_updates |-> 0, target_critic_updates |-> 0,
     table_updates |-> 0,
     base_record_calls |-> 0, base_post_calls |-> 0]

(***************************************************************************)
(* DDPG.act                                                                *)
(* The result holds the agent afterwards, the actions returned, the policy *)
(* methods called, the exploration metrics tracked and the exception       *)
(* raised.  The noise scale is the fraction <<numerator, denominator>>.    *)
(***************************************************************************)
\* Variant of DDPG.act: the decay test is `timestep < self._exploration_timesteps`.
DDPG_act_strict_decay(ag, states, t, T) ==
    IF t < cfg.random_timesteps
    THEN [agent |-> ag, raised |-> "none",
          actions |-> [NoActions EXCEPT !.by = "policy.random_act", !.states = states],
          calls |-> <<"policy.random_act">>, tracked |-> <<>>]
    ELSE IF ~cfg.exploration_noise
    THEN [agent |-> ag, raised |-> "none",
          actions |-> [NoActions EXCEPT !.by = "policy.act", !.states = states],
          calls |-> <<"policy.act">>, tracked |-> <<>>]
    ELSE LET decay == IF ag.exploration_timesteps = <<>> THEN T
                      ELSE ag.exploration_timesteps[1]
             ag1 == [ag EXCEPT !.exploration_timesteps = <<decay>>]
         IN  IF t < decay
             THEN IF decay = 0
                  THEN [agent |-> ag1, raised |-> "ZeroDivisionError",
                        actions |-> NoActions,
                        calls |-> <<"policy.act", "noise.sample">>, tracked |-> <<>>]
                  ELSE [agent |-> ag1, raised |-> "none",
                        actions |-> [by |-> "policy.act", states |-> states,
                                     noise |-> TRUE,
                                     scale |-> <<(decay - t) * (InitialScale - FinalScale)
                                                    + decay * FinalScale, decay>>,
                                     clipped |-> TRUE],
                        calls |-> <<"policy.act", "noise.sample">>,
                        tracked |-> <<"max(noises)", "min(noises)", "mean(noises)">>]
             ELSE [agent |-> ag1, raised |-> "none",
                   actions |-> [NoActions EXCEPT !.by = "policy.act", !.states = states],
                   calls |-> <<"policy.act", "noise.sample">>,
                   tracked |-> <<"0", "0", "0">>]

DDPG_act(ag, states, t, T) ==
    IF t < cfg.random_timesteps
    THEN [agent |-> ag, raised |-> "none",
          actions |-> [NoActions EXCEPT !.by = "policy.random_act", !.states = states],
          calls |-> <<"policy.random_act">>, tracked |-> <<>>]
    ELSE IF ~cfg.exploration_noise
    THEN [agent |-> ag, raised |-> "none",
          actions |-> [NoActions EXCEPT !.by = "policy.act", !.states = states],
          calls |-> <<"policy.act">>, tracked |-> <<>>]
    ELSE LET decay == IF ag.exploration_timesteps = <<>> THEN T
                      ELSE ag.exploration_timesteps[1]
             ag1 == [ag EXCEPT !.exploration_timesteps = <<decay>>]
         IN  IF t <= decay
             THEN IF decay = 0
                  THEN [agent |-> ag1, raised |-> "ZeroDivisionError",
                        actions |-> NoActions,
                        calls |-> <<"policy.act", "noise.sample">>, tracked |-> <<>>]
                  ELSE [agent |-> ag1, raised |-> "none",
                        actions |-> [by |-> "policy.act", states |-> states,
                                     noise |-> TRUE,
                                     scale |-> <<(decay - t) * (InitialScale - FinalScale)
                                                    + decay * FinalScale, decay>>,
                                     clipped |-> TRUE],
                        calls |-> <<"policy.act", "noise.sample">>,
                        tracked |-> <<"max(noises)", "min(noises)", "mean(noises)">>]
             ELSE [agent |-> ag1, raised |-> "none",
                   actions |-> [NoActions EXCEPT !.by = "policy.act", !.states = states],
                   calls |-> <<"policy.act", "noise.sample">>,
                   tracked |-> <<"0", "0", "0">>]

\* Variant of SARSA.act: the warm-up test is `timestep <= random_timesteps`.
SARSA_act_off_by_one(ag, states, t, T) ==
    IF t <= cfg.random_timesteps
    THEN [agent |-> ag, raised |-> "none",
          actions |-> [NoActions EXCEPT !.by = "policy.random_act", !.states = states],
          calls |-> <<"policy.random_act">>, tracked |-> <<>>]
    ELSE [agent |-> ag, raised |-> "none",
          actions |-> [NoActions EXCEPT !.by = "policy.act", !.states = states],
          calls |-> <<"policy.act">>, tracked |-> <<>>]

(***************************************************************************)
(* SARSA.act                                                               *)
(***************************************************************************)
SARSA_act(ag, states, t, T) ==
    IF t < cfg.random_timesteps
    THEN [agent |-> ag, raised |-> "none",
          actions |-> [NoActions EXCEPT !.by = "policy.random_act", !.states = states],
          calls |-> <<"policy.random_act">>, tracked |-> <<>>]
    ELSE [agent |-> ag, raised |-> "none",
          actions |-> [NoActions EXCEPT !.by = "policy.act", !.states = states],
          calls |-> <<"policy.act">>, tracked |-> <<>>]

\* Variant of DDPG.record_transition: nothing is added to the memories.
DDPG_record_no_memory(ag, mems, states, actions, rewards, next_states, dones, t, T) ==
    [agent |-> Agent_record_transition(ag), memories |-> mems, adds |-> <<>>]

\* Variant of DDPG.record_transition: the secondary memories get the raw rewards.
DDPG_record_raw_secondary(ag, mems, states, actions, rewards, next_states, dones, t, T) ==
    LET ag1 == Agent_record_transition(ag)
        r == IF cfg.rewards_shaper THEN rewards_shaper(rewards, t, T) ELSE rewards
        row == [states |-> states, actions |-> actions, rewards |-> r,
                next_states |-> next_states, dones |-> dones]
        raw == [row EXCEPT !.rewards = rewards]
    IN  IF Len(mems) > 0
        THEN [agent |-> ag1,
              memories |-> [i \in 1..Len(mems) |->
                               add_samples(mems[i], IF i = 1 THEN row ELSE raw)],
              adds |-> [i \in 1..Len(mems) |-> <<i, IF i = 1 THEN row ELSE raw>>]]
        ELSE [agent |-> ag1, memories |-> mems, adds |-> <<>>]

(***************************************************************************)
(* DDPG.record_transition                                                  *)
(* adds: the add_samples calls made, as <<memory, row>>, in order.         *)
(***************************************************************************)
DDPG_record_transition(ag, mems, states, actions, rewards, next_states, dones, t, T) ==
    LET ag1 == Agent_record_transition(ag)
        r == IF cfg.rewards_shaper THEN rewards_shaper(rewards, t, T) ELSE rewards
        row == [states |-> states, actions |-> actions, rewards |-> r,
                next_states |-> next_states, dones |-> dones]
    IN  IF Len(mems) > 0
        THEN [agent |-> ag1,
              memories |-> [i \in 1..Len(mems) |-> add_samples(mems[i], row)],
              adds |-> [i \in 1..Len(mems) |-> <<i, row>>]]
        ELSE [agent |-> ag1, memories |-> mems, adds |-> <<>>]

\* Variant of SARSA.record_transition: _current_states refers to next_states.
SARSA_record_current_next(ag, mems, states, actions, rewards, next_states, dones, t, T) ==
    LET ag1 == Agent_record_transition(ag)
        r == IF cfg.rewards_shaper THEN rewards_shaper(rewards, t, T) ELSE rewards
        row == [states |-> states, actions |-> actions, rewards |-> r,
                next_states |-> next_states, dones |-> dones]
        ag2 == [ag1 EXCEPT !.current = [set |-> TRUE, states |-> next_states,
                                        actions |-> actions, rewards |-> r,
                                        next_states |-> next_states, dones |-> dones]]
    IN  IF Len(mems) > 0
        THEN [agent |-> ag2,
              memories |-> [i \in 1..Len(mems) |-> add_samples(mems[i], row)],
              adds |-> [i \in 1..Len(mems) |-> <<i, row>>]]
        ELSE [agent |-> ag2, memories |-> mems, adds |-> <<>>]

(***************************************************************************)
(* SARSA.record_transition                                                 *)
(* The _current_* fields are references to the caller's tensors.           *)
(***************************************************************************)
SARSA_record_transition(ag, mems, states, actions, rewards, next_states, dones, t, T) ==
    LET ag1 == Agent_record_transition(ag)
        r == IF cfg.rewards_shaper THEN rewards_shaper(rewards, t, T) ELSE rewards
        row == [states |-> states, actions |-> actions, rewards |-> r,
                next_states |-> next_states, dones |-> dones]
        ag2 == [ag1 EXCEPT !.current = [set |-> TRUE, states |-> states,
                                        actions |-> actions, rewards |-> r,
                                        next_states |-> next_states, dones |-> dones]]
    IN  IF Len(mems) > 0
        THEN [agent |-> ag2,
              memories |-> [i \in 1..Len(mems) |-> add_samples(mems[i], row)],
              adds |-> [i \in 1..Len(mems) |-> <<i, row>>]]
        ELSE [agent |-> ag2, memories |-> mems, adds |-> <<>>]

(***************************************************************************)
(* DDPG._update: one sample, then gradient_steps gradient steps.           *)
(* ops: what the update did, in order.  draw: the slot the sampler drew.   *)
(***************************************************************************)
GradientStepOps ==
    <<"target_values", "critic_optimizer.step", "policy_optimizer.step",
      "target_policy.update_parameters", "target_critic.update_parameters">>

RECURSIVE Times(_, _)
Times(s, n) == IF n = 0 THEN <<>> ELSE s \o Times(s, n - 1)

\* Variant of DDPG._update: the sampled batch is written back to the memory.
DDPG_update_writes_memory(ag, mems, draw) ==
    IF Len(mems) = 0
    THEN [agent |-> ag, memories |-> mems, raised |-> "AttributeError", ops |-> <<>>]
    ELSE IF mems[1].fill_count = 0
    THEN [agent |-> ag, memories |-> mems, raised |-> "EmptyMemoryError",
          ops |-> <<"memory.sample">>]
    ELSE [agent |-> [ag EXCEPT !.sampled = <<sample(mems[1], draw)>>,
                               !.samples = @ + 1,
                               !.critic_steps = @ + cfg.gradient_steps,
                               !.policy_steps = @ + cfg.gradient_steps,
                               !.target_policy_updates = @ + cfg.gradient_steps,
                               !.target_critic_updates = @ + cfg.gradient_steps],
          memories |-> [mems EXCEPT ![1] = add_samples(@, sample(mems[1], draw))],
          raised |-> "none",
          ops |-> <<"memory.sample">> \o Times(GradientStepOps, cfg.gradient_steps)]

DDPG_update(ag, mems, draw) ==
    IF Len(mems) = 0
    THEN [agent |-> ag, memories |-> mems, raised |-> "AttributeError", ops |-> <<>>]
    ELSE IF mems[1].fill_count = 0
    THEN [agent |-> ag, memories |-> mems, raised |-> "EmptyMemoryError",
          ops |-> <<"memory.sample">>]
    ELSE [agent |-> [ag EXCEPT !.sampled = <<sample(mems[1], draw)>>,
                               !.samples = @ + 1,
                               !.critic_steps = @ + cfg.gradient_steps,
                               !.policy_steps = @ + cfg.gradient_steps,
                               !.target_policy_updates = @ + cfg.gradient_steps,
                               !.target_critic_updates = @ + cfg.gradient_steps],
          memories |-> mems, raised |-> "none",
          ops |-> <<"memory.sample">> \o Times(GradientStepOps, cfg.gradient_steps)]

(***************************************************************************)
(* SARSA._update: reads the _current_* fields, updates the Q-table.        *)
(***************************************************************************)
SARSA_update(ag, mems) ==
    IF ~ag.current.set
    THEN [agent |-> ag, memories |-> mems, raised |-> "AttributeError", ops |-> <<>>]
    ELSE [agent |-> [ag EXCEPT !.table_updates = @ + 1],
          memories |-> mems, raised |-> "none",
          ops |-> <<"policy.table", "policy.act", "q_table update">>]

(***************************************************************************)
(* DDPG.post_interaction / SARSA.post_interaction                          *)
(* post_out: what this call did (update invoked, its ops, base class       *)
(* called).                                                                *)
(***************************************************************************)
\* Variant of DDPG.post_interaction: the gate is `timestep > learning_starts`.
DDPG_post_interaction_strict(ag, mems, t, T, draw) ==
    IF t > cfg.learning_starts
    THEN LET u == DDPG_update(ag, mems, draw)
         IN  [agent |-> Agent_post_interaction(u.agent), memories |-> u.memories,
              raised |-> u.raised,
              out |-> [t |-> t, updated |-> TRUE, ops |-> u.ops, base |-> TRUE]]
    ELSE [agent |-> Agent_post_interaction(ag), memories |-> mems, raised |-> "none",
          out |-> [t |-> t, updated |-> FALSE, ops |-> <<>>, base |-> TRUE]]

DDPG_post_interaction(ag, mems, t, T, draw) ==
    IF t >= cfg.learning_starts
    THEN LET u == DDPG_update(ag, mems, draw)
         IN  IF u.raised # "none"
             THEN [agent |-> u.agent, memories |-> u.memories, raised |-> u.raised,
                   out |-> [t |-> t, updated |-> TRUE, ops |-> u.ops, base |-> FALSE]]
             ELSE [agent |-> Agent_post_interaction(u.agent), memories |-> u.memories,
                   raised |-> "none",
                   out |-> [t |-> t, updated |-> TRUE, ops |-> u.ops, base |-> TRUE]]
    ELSE [agent |-> Agent_post_interaction(ag), memories |-> mems, raised |-> "none",
          out |-> [t |-> t, updated |-> FALSE, ops |-> <<>>, base |-> TRUE]]

SARSA_post_interaction(ag, mems, t, T, draw) ==
    IF t >= cfg.learning_starts
    THEN LET u == SARSA_update(ag, mems)
         IN  IF u.raised # "none"
             THEN [agent |-> u.agent, memories |-> u.memories, raised |-> u.raised,
                   out |-> [t |-> t, updated |-> TRUE, ops |-> u.ops, base |-> FALSE]]
             ELSE [agent |-> Agent_post_interaction(u.agent), memories |-> u.memories,
                   raised |-> "none",
                   out |-> [t |-> t, updated |-> TRUE, ops |-> u.ops, base |-> TRUE]]
    ELSE [agent |-> Agent_post_interaction(ag), memories |-> mems, raised |-> "none",
          out |-> [t |-> t, updated |-> FALSE, ops |-> <<>>, base |-> TRUE]]

(***************************************************************************)
(* DDPG.pre_interaction / SARSA.pre_interaction: pass                      *)
(***************************************************************************)
pre_interaction(ag, mems) == [agent |-> ag, memories |-> mems]

(***************************************************************************)
(* Trainer.single_agent_train                                              *)
(* pc names the statement the trainer executes next; Succ is the order of  *)
(* the statements in the loop body.                                        *)
(***************************************************************************)
\* Variant of Succ: post_interaction is called before record_transition.
SuccPostBeforeRecord(p) ==
    CASE p = "pre" -> "act"
      [] p = "act" -> "step"
      [] p = "step" -> IF cfg.headless THEN "post" ELSE "render"
      [] p = "render" -> "post"
      [] p = "post" -> "record"
      [] p = "record" -> "reset"

Succ(p) ==
    CASE p = "pre" -> "act"
      [] p = "act" -> "step"
      [] p = "step" -> IF cfg.headless THEN "record" ELSE "render"
      [] p = "render" -> "record"
      [] p = "record" -> "post"
      [] p = "post" -> "reset"

\* Variant of the end of the loop body: the environments are reset after
\* every timestep.
reset_every_timestep(next_states, dones, k) ==
    [states |-> ResetObs(k), reset |-> TRUE, copied |-> FALSE]

\* if dones.any(): states = self.env.reset()  else: states.copy_(next_states)
\* k: the number of env.step calls made so far.  reset: env.reset was called;
\* copied: the states tensor was overwritten in place.
reset_or_copy(next_states, dones, k) ==
    IF any(dones)
    THEN [states |-> ResetObs(k), reset |-> TRUE, copied |-> FALSE]
    ELSE [states |-> next_states, reset |-> FALSE, copied |-> TRUE]

\* the environment before any call: no reset made, no episode ended
NewEnv == [resets |-> 0, done_steps |-> 0]

\* the test of `for timestep in range(self.initial_timestep, self.timesteps)`
LoopTest(t) == IF t < cfg.timesteps THEN "pre" ELSE "close"

Configs ==
    {c \in [agent : {"DDPG", "SARSA"},
            timesteps : {MaxTimesteps},
            headless : BOOLEAN,
            learning_starts : LearningStartChoices,
            random_timesteps : RandomChoices,
            rewards_shaper : BOOLEAN,
            exploration_noise : BOOLEAN,
            exploration_timesteps : DecayChoices,
            gradient_steps : GradientStepChoices,
            n_memories : 0..(1 + MaxSecondary)] :
        \* SARSA has no exploration noise and no gradient steps
        /\ c.agent = "SARSA" =>
              /\ ~c.exploration_noise
              /\ c.gradient_steps = 1
        /\ ~c.exploration_noise => c.exploration_timesteps = <<>>
        \* DDPG's update engine samples the primary memory: it is trained with one
        /\ c.agent = "DDPG" => c.n_memories >= 1}

\* the trainer of the loop: Trainer(env, agent), a bare agent
SetupDone ==
    /\ num_envs = Cardinality(EnvIds)
    /\ agents_is_list = FALSE
    /\ agents_len = 1
    /\ scope_list = Sizes(<<>>)
    /\ trainers = <<setup_agents(FALSE, 1, Sizes(<<>>), Cardinality(EnvIds))>>
    /\ generated = [called |-> FALSE]

Init ==
    /\ SetupDone
    /\ cfg \in Configs
    /\ pc = "start"
    /\ timestep = 0
    /\ locals = [states |-> Unset, actions |-> NoActions, next_states |-> Unset,
                 rewards |-> 0, dones |-> [e \in EnvIds |-> FALSE]]
    /\ env_step_arg = NoActions
    /\ memories = [i \in 1..cfg.n_memories |-> NewMemory]
    /\ agent = NewAgent
    /\ log = <<>>
    /\ env = NewEnv
    /\ UnitIdle

\* states = self.env.reset(), then the first test of the for loop
Reset ==
    /\ pc = "start"
    /\ locals' = [locals EXCEPT !.states = ResetObs(0)]
    /\ env' = [env EXCEPT !.resets = @ + 1]
    /\ pc' = LoopTest(timestep)
    /\ UNCHANGED <<setupVars, unitVars, cfg, timestep, env_step_arg, memories, agent, log>>

\* self.agents.pre_interaction(timestep, timesteps)
PreInteraction ==
    /\ pc = "pre"
    /\ LET r == pre_interaction(agent, memories)
       IN  agent' = r.agent /\ memories' = r.memories
    /\ log' = Append(log, <<"pre_interaction", timestep>>)
    /\ pc' = Succ(pc)
    /\ UNCHANGED <<setupVars, unitVars, cfg, timestep, locals, env_step_arg, env>>

\* actions, _, _ = self.agents.act(states, timestep, timesteps)
Act ==
    /\ pc = "act"
    /\ LET r == IF cfg.agent = "DDPG"
                THEN DDPG_act(agent, locals.states, timestep, cfg.timesteps)
                ELSE SARSA_act(agent, locals.states, timestep, cfg.timesteps)
       IN  /\ agent' = [r.agent EXCEPT !.act_out =
                           [t |-> timestep, states |-> locals.states,
                            actions |-> r.actions, calls |-> r.calls,
                            tracked |-> r.tracked, raised |-> r.raised]]
           /\ locals' = [locals EXCEPT !.actions = r.actions]
           /\ pc' = IF r.raised = "none" THEN Succ(pc) ELSE "raised"
    /\ log' = Append(log, <<"act", timestep>>)
    /\ UNCHANGED <<setupVars, unitVars, cfg, timestep, env_step_arg, memories, env>>

\* next_states, rewards, dones, infos = self.env.step(actions)
EnvStep ==
    /\ pc = "step"
    /\ \E rw \in Rewards, dn \in DonesChoices :
          locals' = [locals EXCEPT !.next_states = StepObs(timestep),
                                   !.rewards = rw, !.dones = dn]
    /\ env_step_arg' = locals.actions
    /\ env' = [env EXCEPT !.done_steps = IF any(locals'.dones) THEN @ + 1 ELSE @]
    /\ log' = Append(log, <<"env.step", timestep>>)
    /\ pc' = Succ(pc)
    /\ UNCHANGED <<setupVars, unitVars, cfg, timestep, memories, agent>>

\* if not self.headless: self.env.render()
Render ==
    /\ pc = "render"
    /\ log' = Append(log, <<"env.render", timestep>>)
    /\ pc' = Succ(pc)
    /\ UNCHANGED <<setupVars, unitVars, cfg, timestep, locals, env_step_arg, memories, agent, env>>

\* self.agents.record_transition(states, actions, rewards, next_states, dones, ...)
RecordTransition ==
    /\ pc = "record"
    /\ LET r == IF cfg.agent = "DDPG"
                THEN DDPG_record_transition(agent, memories, locals.states,
                         locals.actions, locals.rewards, locals.next_states,
                         locals.dones, timestep, cfg.timesteps)
                ELSE SARSA_record_transition(agent, memories, locals.states,
                         locals.actions, locals.rewards, locals.next_states,
                         locals.dones, timestep, cfg.timesteps)
       IN  /\ agent' = [r.agent EXCEPT !.record_out =
                           [t |-> timestep, adds |-> r.adds, given |-> locals]]
           /\ memories' = r.memories
    /\ log' = Append(log, <<"record_transition", timestep>>)
    /\ pc' = Succ(pc)
    /\ UNCHANGED <<setupVars, unitVars, cfg, timestep, locals, env_step_arg, env>>

\* self.agents.post_interaction(timestep, timesteps)
PostInteraction ==
    /\ pc = "post"
    /\ \E draw \in SampleChoices(memories) :
          LET r == IF cfg.agent = "DDPG"
                   THEN DDPG_post_interaction(agent, memories, timestep, cfg.timesteps, draw)
                   ELSE SARSA_post_interaction(agent, memories, timestep, cfg.timesteps, draw)
          IN  /\ agent' = [r.agent EXCEPT !.post_out = r.out]
              /\ memories' = r.memories
              /\ pc' = IF r.raised = "none" THEN Succ(pc) ELSE "raised"
    /\ log' = Append(log, <<"post_interaction", timestep>>)
    /\ UNCHANGED <<setupVars, unitVars, cfg, timestep, locals, env_step_arg, env>>

\* if dones.any(): states = self.env.reset()  else: states.copy_(next_states)
\* The copy is in place: an agent field that refers to the states tensor
\* (SARSA._current_states) sees the new content.
ResetOrCopy ==
    /\ pc = "reset"
    /\ LET r == reset_or_copy(locals.next_states, locals.dones, timestep + 1)
       IN  /\ locals' = [locals EXCEPT !.states = r.states]
           /\ env' = [env EXCEPT !.resets = IF r.reset THEN @ + 1 ELSE @]
           /\ agent' = IF r.copied /\ agent.current.set
                       THEN [agent EXCEPT !.current.states = r.states]
                       ELSE agent
    /\ timestep' = timestep + 1
    /\ pc' = LoopTest(timestep + 1)
    /\ UNCHANGED <<setupVars, unitVars, cfg, env_step_arg, memories, log>>

\* self.env.close()
Close ==
    /\ pc = "close"
    /\ pc' = "done"
    /\ log' = Append(log, <<"env.close", timestep>>)
    /\ UNCHANGED <<setupVars, unitVars, cfg, timestep, locals, env_step_arg, memories, agent, env>>

Next ==
    \/ Reset
    \/ PreInteraction
    \/ Act
    \/ EnvStep
    \/ Render
    \/ RecordTransition
    \/ PostInteraction
    \/ ResetOrCopy
    \/ Close

Spec == Init /\ [][Next]_vars

(***************************************************************************)
(* Trainer.single_agent_eval                                               *)
(* The loop calls act, env.step, (env.render,) and then the base class's   *)
(* record_transition and post_interaction on the agent:                    *)
(*     super(type(self.agents), self.agents).record_transition(...)        *)
(*     super(type(self.agents), self.agents).post_interaction(...)         *)
(* There is no pre_interaction call.                                       *)
(***************************************************************************)
\* Variant of the evaluation's record_transition call: the agent's own method.
Eval_record_transition_of_agent(ag, mems, states, actions, rewards, next_states, dones, t, T) ==
    IF cfg.agent = "DDPG"
    THEN DDPG_record_transition(ag, mems, states, actions, rewards, next_states, dones, t, T)
    ELSE SARSA_record_transition(ag, mems, states, actions, rewards, next_states, dones, t, T)

\* super(type(self.agents), self.agents).record_transition(...)
Eval_record_transition(ag, mems, states, actions, rewards, next_states, dones, t, T) ==
    [agent |-> Agent_record_transition(ag), memories |-> mems, adds |-> <<>>]

\* Variant of the evaluation's post_interaction call: the agent's own method.
Eval_post_interaction_of_agent(ag, mems, t, T, draw) ==
    IF cfg.agent = "DDPG"
    THEN DDPG_post_interaction(ag, mems, t, T, draw)
    ELSE SARSA_post_interaction(ag, mems, t, T, draw)

\* super(type(self.agents), self.agents).post_interaction(timestep, timesteps)
Eval_post_interaction(ag, mems, t, T, draw) ==
    [agent |-> Agent_post_interaction(ag), memories |-> mems, raised |-> "none",
     out |-> [t |-> t, updated |-> FALSE, ops |-> <<>>, base |-> TRUE]]

\* the order of the statements in the evaluation's loop body
SuccEval(p) ==
    CASE p = "act" -> "step"
      [] p = "step" -> IF cfg.headless THEN "record" ELSE "render"
      [] p = "render" -> "record"
      [] p = "record" -> "post"
      [] p = "post" -> "reset"

LoopTestEval(t) == IF t < cfg.timesteps THEN "act" ELSE "close"

\* states = self.env.reset(), then the first test of the for loop
EvalReset ==
    /\ pc = "start"
    /\ locals' = [locals EXCEPT !.states = ResetObs(0)]
    /\ env' = [env EXCEPT !.resets = @ + 1]
    /\ pc' = LoopTestEval(timestep)
    /\ UNCHANGED <<setupVars, unitVars, cfg, timestep, env_step_arg, memories, agent, log>>

\* actions, _, _ = self.agents.act(states, timestep, timesteps)
EvalAct ==
    /\ pc = "act"
    /\ LET r == IF cfg.agent = "DDPG"
                THEN DDPG_act(agent, locals.states, timestep, cfg.timesteps)
                ELSE SARSA_act(agent, locals.states, timestep, cfg.timesteps)
       IN  /\ agent' = [r.agent EXCEPT !.act_out =
                           [t |-> timestep, states |-> locals.states,
                            actions |-> r.actions, calls |-> r.calls,
                            tracked |-> r.tracked, raised |-> r.raised]]
           /\ locals' = [locals EXCEPT !.actions = r.actions]
           /\ pc' = IF r.raised = "none" THEN SuccEval(pc) ELSE "raised"
    /\ log' = Append(log, <<"act", timestep>>)
    /\ UNCHANGED <<setupVars, unitVars, cfg, timestep, env_step_arg, memories, env>>

\* next_states, rewards, dones, infos = self.env.step(actions)
EvalEnvStep ==
    /\ pc = "step"
    /\ \E rw \in Rewards, dn \in DonesChoices :
          locals' = [locals EXCEPT !.next_states = StepObs(timestep),
                                   !.rewards = rw, !.dones = dn]
    /\ env_step_arg' = locals.actions
    /\ env' = [env EXCEPT !.done_steps = IF any(locals'.dones) THEN @ + 1 ELSE @]
    /\ log' = Append(log, <<"env.step", timestep>>)
    /\ pc' = SuccEval(pc)
    /\ UNCHANGED <<setupVars, unitVars, cfg, timestep, memories, agent>>

\* if not self.headless: self.env.render()
EvalRender ==
    /\ pc = "render"
    /\ log' = Append(log, <<"env.render", timestep>>)
    /\ pc' = SuccEval(pc)
    /\ UNCHANGED <<setupVars, unitVars, cfg, timestep, locals, env_step_arg, memories, agent, env>>

\* super(type(self.agents), self.agents).record_transition(...)
EvalRecordTransition ==
    /\ pc = "record"
    /\ LET r == Eval_record_transition(agent, memories, locals.states,
                    locals.actions, locals.rewards, locals.next_states,
                    locals.dones, timestep, cfg.timesteps)
       IN  /\ agent' = r.agent
           /\ memories' = r.memories
    /\ log' = Append(log, <<"Agent.record_transition", timestep>>)
    /\ pc' = SuccEval(pc)
    /\ UNCHANGED <<setupVars, unitVars, cfg, timestep, locals, env_step_arg, env>>

\* super(type(self.agents), self.agents).post_interaction(timestep, timesteps)
EvalPostInteraction ==
    /\ pc = "post"
    /\ \E draw \in SampleChoices(memories) :
          LET r == Eval_post_interaction(agent, memories, timestep, cfg.timesteps, draw)
          IN  /\ agent' = [r.agent EXCEPT !.post_out = r.out]
              /\ memories' = r.memories
              /\ pc' = IF r.raised = "none" THEN SuccEval(pc) ELSE "raised"
    /\ log' = Append(log, <<"Agent.post_interaction", timestep>>)
    /\ UNCHANGED <<setupVars, unitVars, cfg, timestep, locals, env_step_arg, env>>

\* if dones.any(): states = self.env.reset()  else: states.copy_(next_states)
EvalResetOrCopy ==
    /\ pc = "reset"
    /\ LET r == reset_or_copy(locals.next_states, locals.dones, timestep + 1)
       IN  /\ locals' = [locals EXCEPT !.states = r.states]
           /\ env' = [env EXCEPT !.resets = IF r.reset THEN @ + 1 ELSE @]
           /\ agent' = IF r.copied /\ agent.current.set
                       THEN [agent EXCEPT !.current.states = r.states]
                       ELSE agent
    /\ timestep' = timestep + 1
    /\ pc' = LoopTestEval(timestep + 1)
    /\ UNCHANGED <<setupVars, unitVars, cfg, env_step_arg, memories, log>>

\* self.env.close()
EvalClose ==
    /\ pc = "close"
    /\ pc' = "done"
    /\ log' = Append(log, <<"env.close", timestep>>)
    /\ UNCHANGED <<setupVars, unitVars, cfg, timestep, locals, env_step_arg, memories, agent, env>>

NextEval ==
    \/ EvalReset
    \/ EvalAct
    \/ EvalEnvStep
    \/ EvalRender
    \/ EvalRecordTransition
    \/ EvalPostInteraction
    \/ EvalResetOrCopy
    \/ EvalClose

\* the evaluation starts from the same trainer, agent and memories as training
SpecEval == Init /\ [][NextEval]_vars

(***************************************************************************)
(* DDPG.__init__(models, ...)                                              *)
(* A model is a record holding its parameters (one number stands for the   *)
(* tensors) and whether they are frozen; None is the value of a role that  *)
(* the models dictionary does not hold.                                    *)
(***************************************************************************)
Roles == {"policy", "target_policy", "critic", "target_critic"}

None == [kind |-> "None"]

Model(p) == [kind |-> "Model", params |-> p, frozen |-> FALSE]

\* polyak is in thousandths; DDPG_DEFAULT_CONFIG["polyak"] is 0.005
One == 1000
Polyak == 5

\* Model.freeze_parameters(True) (spec.md 4.4)
freeze_parameters(model) == [model EXCEPT !.frozen = TRUE]

\* Model.update_parameters(source, polyak) (spec.md 4.4 step 7):
\*     target_param <- polyak * online_param + (1 - polyak) * target_param
\* The parameters are kept in thousandths of the unit of ParamChoices.
update_parameters(model, source, polyak) ==
    [model EXCEPT !.params = (polyak * source.params + (One - polyak) * @) \div One]

\* self.models.get(role, None)
get(models, role) == IF role \in DOMAIN models THEN models[role] ELSE None

\* The result holds the agent's four fields after the constructor, the
\* optimizers it created and the exception it raised.  A hard update from a
\* source that is None raises AttributeError inside update_parameters.
DDPG_init(models) ==
    LET policy == get(models, "policy")
        target_policy == get(models, "target_policy")
        critic == get(models, "critic")
        target_critic == get(models, "target_critic")
        optimizers == IF policy # None /\ critic # None
                      THEN {"policy_optimizer", "critic_optimizer"} ELSE {}
    IN  IF target_policy # None /\ target_critic # None
        THEN IF policy = None
             THEN [raised |-> "AttributeError",
                   policy |-> policy,
                   target_policy |-> freeze_parameters(target_policy),
                   critic |-> critic,
                   target_critic |-> freeze_parameters(target_critic),
                   optimizers |-> {}]
             ELSE IF critic = None
             THEN [raised |-> "AttributeError",
                   policy |-> policy,
                   target_policy |->
                       update_parameters(freeze_parameters(target_policy), policy, One),
                   critic |-> critic,
                   target_critic |-> freeze_parameters(target_critic),
                   optimizers |-> {}]
             ELSE [raised |-> "none",
                   policy |-> policy,
                   target_policy |->
                       update_parameters(freeze_parameters(target_policy), policy, One),
                   critic |-> critic,
                   target_critic |->
                       update_parameters(freeze_parameters(target_critic), critic, One),
                   optimizers |-> optimizers]
        ELSE [raised |-> "none",
              policy |-> policy, target_policy |-> target_policy,
              critic |-> critic, target_critic |-> target_critic,
              optimizers |-> optimizers]

\* the parameters a model passed to the constructor may hold, in thousandths
ParamChoices == {k * One : k \in 0..MaxParam}

\* the dictionaries a caller may pass: any subset of the roles
ModelDicts ==
    UNION {[R -> {Model(p) : p \in ParamChoices}] : R \in SUBSET Roles}

\* the trainer and the loop are not involved in a single call
NoLoop ==
    /\ SetupDone
    /\ LoopIdle

InitConstruct ==
    /\ NoLoop
    /\ call \in {[method |-> "DDPG.__init__", models |-> m] : m \in ModelDicts}
    /\ ret = <<>>

\* agent = DDPG(models=models, ...)
DDPGConstruct ==
    /\ ret = <<>>
    /\ ret' = DDPG_init(call.models)
    /\ UNCHANGED <<setupVars, loopVars, call>>

NextConstruct == DDPGConstruct

SpecConstruct == InitConstruct /\ [][NextConstruct]_vars

(***************************************************************************)
(* DDPG.act called on one agent at timesteps 0, 1, 2, ...                  *)
(* The caller passes the total number of timesteps with every call; the    *)
(* agent keeps _exploration_timesteps between the calls.  call.first is    *)
(* the total passed by the first call that reached the noise branch.       *)
(***************************************************************************)
ActDecayChoices == {<<>>} \cup {<<d>> : d \in 0..MaxDecay}

ActConfigs ==
    {c \in [agent : {"DDPG"},
            timesteps : {MaxTimesteps},
            headless : {TRUE},
            learning_starts : {0},
            random_timesteps : RandomChoices,
            rewards_shaper : {FALSE},
            exploration_noise : BOOLEAN,
            exploration_timesteps : ActDecayChoices,
            gradient_steps : {1},
            n_memories : {1}] :
        ~c.exploration_noise => c.exploration_timesteps = <<>>}

InitAct ==
    /\ SetupDone
    /\ cfg \in ActConfigs
    /\ pc = "idle"
    /\ timestep = 0
    /\ locals = <<>>
    /\ env_step_arg = <<>>
    /\ memories = <<>>
    /\ agent = NewAgent
    /\ log = <<>>
    /\ env = <<>>
    /\ call = [method |-> "DDPG.act", first |-> <<>>]
    /\ ret = <<>>

\* actions, _, _ = agent.act(states, timestep, timesteps)
DDPGActCall ==
    /\ timestep <= MaxTimesteps
    /\ IF ret = <<>> THEN TRUE ELSE ret.raised = "none"
    /\ \E T \in (timestep + 1)..(MaxTimesteps + 1) :
          LET r == DDPG_act(agent, StepObs(timestep), timestep, T)
          IN  /\ agent' = r.agent
              /\ ret' = [t |-> timestep, T |-> T, raised |-> r.raised,
                         actions |-> r.actions, calls |-> r.calls,
                         tracked |-> r.tracked]
              /\ call' = IF call.first = <<>> /\ "noise.sample" \in {r.calls[i] : i \in 1..Len(r.calls)}
                         THEN [call EXCEPT !.first = <<T>>]
                         ELSE call
    /\ timestep' = timestep + 1
    /\ UNCHANGED <<setupVars, cfg, pc, locals, env_step_arg, memories, log, env>>

NextAct == DDPGActCall

SpecAct == InitAct /\ [][NextAct]_vars

(***************************************************************************)
(* Floating-point values of a tensor element: a finite number (an integer  *)
(* count of thousandths), an infinity or NaN, with IEEE 754 products and   *)
(* sums: 0 * inf = NaN, inf - inf = NaN, NaN is absorbing.                 *)
(***************************************************************************)
Fin(v) == [kind |-> "fin", v |-> v]
Inf(sign) == [kind |-> "inf", v |-> sign]
NaN == [kind |-> "nan", v |-> 0]

Sign(v) == IF v > 0 THEN 1 ELSE IF v < 0 THEN 0 - 1 ELSE 0

\* a * b, where a finite `a` is a plain factor and the product keeps b's unit
FMul(a, b) ==
    IF a.kind = "nan" \/ b.kind = "nan" THEN NaN
    ELSE IF a.kind = "fin" /\ b.kind = "fin" THEN Fin(a.v * b.v)
    ELSE IF Sign(a.v) * Sign(b.v) = 0 THEN NaN
    ELSE Inf(Sign(a.v) * Sign(b.v))

FAdd(a, b) ==
    IF a.kind = "nan" \/ b.kind = "nan" THEN NaN
    ELSE IF a.kind = "fin" /\ b.kind = "fin" THEN Fin(a.v + b.v)
    ELSE IF a.kind = "inf" /\ b.kind = "inf"
    THEN (IF a.v = b.v THEN a ELSE NaN)
    ELSE IF a.kind = "inf" THEN a ELSE b

(***************************************************************************)
(* DDPG._update, statement by statement.                                   *)
(* call: the configured gradient_steps and the batch the memory holds;     *)
(* ret: the position in _update (pc), the number of loop iterations        *)
(* entered, the batch sampled, the target critic's outputs and the target  *)
(* values of the current iteration, the parameters of the four models and  *)
(* the calls made so far.  Learning-rate schedulers and data tracking      *)
(* change none of these and are left out.                                  *)
(***************************************************************************)
\* DDPG_DEFAULT_CONFIG["discount_factor"] is 0.99, in thousandths
Discount == 990

\* Variant of target_values: the bootstrap term is not masked by the dones.
target_value_unmasked(reward, done, q) ==
    FAdd(Fin(One * reward), FMul(Fin(Discount), q))

\* one row of target_values:
\*     sampled_rewards + discount_factor * sampled_dones.logical_not() * target_q_values
\* in thousandths; the reward and the finite q are whole numbers
target_value(reward, done, q) ==
    FAdd(Fin(One * reward),
         FMul(FMul(Fin(Discount), Fin(IF done THEN 0 ELSE 1)), q))

\* Variant of the loop body: the targets are soft-updated before the policy's
\* optimization step.
SuccUpdateTargetsBeforePolicy(p) ==
    CASE p = "sample" -> "loop"
      [] p = "target_values" -> "critic_step"
      [] p = "critic_step" -> "update_target_policy"
      [] p = "update_target_policy" -> "update_target_critic"
      [] p = "update_target_critic" -> "policy_step"
      [] p = "policy_step" -> "loop"

\* the order of the statements of _update; "loop" is the test of the for loop
SuccUpdate(p) ==
    CASE p = "sample" -> "loop"
      [] p = "target_values" -> "critic_step"
      [] p = "critic_step" -> "policy_step"
      [] p = "policy_step" -> "update_target_policy"
      [] p = "update_target_policy" -> "update_target_critic"
      [] p = "update_target_critic" -> "loop"

\* for gradient_step in range(self._gradient_steps)
AfterUpdateStatement(p, entered) ==
    IF SuccUpdate(p) = "loop"
    THEN (IF entered < call.gradient_steps THEN "target_values" ELSE "return")
    ELSE SuccUpdate(p)

BatchRows == 1..2

\* what the target critic may return for a row
QChoices == {Fin(q) : q \in 0..MaxQ} \cup {Inf(1), NaN}

Batches == [BatchRows -> [reward : Rewards, done : BOOLEAN]]

InitUpdate ==
    /\ NoLoop
    /\ call \in [method : {"DDPG._update"},
                 gradient_steps : GradientStepChoices,
                 batch : Batches,
                 params : ParamChoices]
    \* the targets are hard copies of the online models (DDPG.__init__)
    /\ ret = [pc |-> "sample", entered |-> 0, samples |-> 0,
              batch |-> <<>>, q |-> <<>>, target_values |-> <<>>,
              policy |-> call.params, critic |-> call.params,
              target_policy |-> call.params, target_critic |-> call.params,
              target_policy_updates |-> 0, target_critic_updates |-> 0,
              ops |-> <<>>]

\* sampled_... = self.memory.sample(names=self.tensors_names, batch_size=...)[0]
UpdateSample ==
    /\ ret # <<>>
    /\ ret.pc = "sample"
    /\ ret' = [ret EXCEPT !.batch = call.batch,
                          !.samples = @ + 1,
                          !.ops = Append(@, "memory.sample"),
                          !.pc = AfterUpdateStatement("sample", ret.entered)]
    /\ UNCHANGED <<setupVars, loopVars, call>>

\* next_actions = target_policy.act(...); target_q_values = target_critic.act(...)
\* target_values = sampled_rewards + discount * sampled_dones.logical_not() * target_q_values
UpdateTargetValues ==
    /\ ret # <<>>
    /\ ret.pc = "target_values"
    /\ \E q \in [BatchRows -> QChoices] :
          ret' = [ret EXCEPT !.entered = @ + 1,
                             !.q = q,
                             !.target_values =
                                 [i \in BatchRows |->
                                     target_value(ret.batch[i].reward,
                                                  ret.batch[i].done, q[i])],
                             !.ops = Append(@, "target_values"),
                             !.pc = AfterUpdateStatement("target_values", ret.entered + 1)]
    /\ UNCHANGED <<setupVars, loopVars, call>>

\* critic_loss.backward(); self.critic_optimizer.step()
UpdateCriticStep ==
    /\ ret # <<>>
    /\ ret.pc = "critic_step"
    /\ ret' = [ret EXCEPT !.critic = @ + One,
                          !.ops = Append(@, "critic_optimizer.step"),
                          !.pc = AfterUpdateStatement("critic_step", ret.entered)]
    /\ UNCHANGED <<setupVars, loopVars, call>>

\* policy_loss.backward(); self.policy_optimizer.step()
UpdatePolicyStep ==
    /\ ret # <<>>
    /\ ret.pc = "policy_step"
    /\ ret' = [ret EXCEPT !.policy = @ + One,
                          !.ops = Append(@, "policy_optimizer.step"),
                          !.pc = AfterUpdateStatement("policy_step", ret.entered)]
    /\ UNCHANGED <<setupVars, loopVars, call>>

\* self.target_policy.update_parameters(self.policy, polyak=self._polyak)
UpdateTargetPolicy ==
    /\ ret # <<>>
    /\ ret.pc = "update_target_policy"
    /\ ret' = [ret EXCEPT !.target_policy =
                              update_parameters(Model(@), Model(ret.policy), Polyak).params,
                          !.target_policy_updates = @ + 1,
                          !.ops = Append(@, "target_policy.update_parameters"),
                          !.pc = AfterUpdateStatement("update_target_policy", ret.entered)]
    /\ UNCHANGED <<setupVars, loopVars, call>>

\* self.target_critic.update_parameters(self.critic, polyak=self._polyak)
UpdateTargetCritic ==
    /\ ret # <<>>
    /\ ret.pc = "update_target_critic"
    /\ ret' = [ret EXCEPT !.target_critic =
                              update_parameters(Model(@), Model(ret.critic), Polyak).params,
                          !.target_critic_updates = @ + 1,
                          !.ops = Append(@, "target_critic.update_parameters"),
                          !.pc = AfterUpdateStatement("update_target_critic", ret.entered)]
    /\ UNCHANGED <<setupVars, loopVars, call>>

NextUpdate ==
    \/ UpdateSample
    \/ UpdateTargetValues
    \/ UpdateCriticStep
    \/ UpdatePolicyStep
    \/ UpdateTargetPolicy
    \/ UpdateTargetCritic

SpecUpdate == InitUpdate /\ [][NextUpdate]_vars

(***************************************************************************)
(* The multi-agent training loop (spec.md 2, 4.6 and 5): train() of a      *)
(* trainer of several agents.  The agents are iterated in their fixed      *)
(* order; per timestep every agent runs pre_interaction and act on the     *)
(* states of its scope, the environment is stepped once with all actions,  *)
(* and every agent runs record_transition and post_interaction on the      *)
(* slice of its scope.  Here `agent` and `memories` hold one entry per     *)
(* agent.  The scenario is the one of spec.md 8: 4 environments, 2 agents, *)
(* an empty scope list, 5 timesteps, an environment that never ends an     *)
(* episode.                                                                *)
(***************************************************************************)
E2EEnvs == 4
E2EAgents == 2
E2ETimesteps == 5

E2EEnvIds == 1..E2EEnvs

Agents == 1..E2EAgents

\* the part of a batch tensor that belongs to the scope <<lo, hi>>
Slice(x, scope) == [of |-> x, lo |-> scope[1], hi |-> scope[2]]

\* dones[lo:hi]
SliceDones(dones, scope) == [e \in (scope[1] + 1)..scope[2] |-> dones[e]]

MultiConfigs ==
    [agent : {"DDPG"},
     timesteps : {E2ETimesteps},
     headless : BOOLEAN,
     learning_starts : {2, E2ETimesteps},
     random_timesteps : {0},
     rewards_shaper : {FALSE},
     exploration_noise : {FALSE},
     exploration_timesteps : {<<>>},
     gradient_steps : GradientStepChoices,
     n_memories : {1},
     capacity : {E2ETimesteps, E2ETimesteps + 1}]

\* trainer = Trainer(env, agents=[a1, a2], agents_scope=[])
InitMulti ==
    /\ num_envs = E2EEnvs
    /\ agents_is_list = TRUE
    /\ agents_len = E2EAgents
    /\ scope_list = Sizes(<<>>)
    /\ trainers = <<setup_agents(TRUE, E2EAgents, Sizes(<<>>), E2EEnvs)>>
    /\ generated = [called |-> FALSE]
    /\ cfg \in MultiConfigs
    /\ pc = "start"
    /\ timestep = 0
    /\ locals = [states |-> Unset, actions |-> <<>>, next_states |-> Unset,
                 rewards |-> 0, dones |-> [e \in E2EEnvIds |-> FALSE]]
    /\ env_step_arg = <<>>
    /\ memories = [i \in Agents |-> [m \in 1..cfg.n_memories |-> NewMemoryOf(cfg.capacity)]]
    /\ agent = [i \in Agents |-> NewAgent]
    /\ log = <<>>
    /\ env = NewEnv
    /\ UnitIdle

\* the scope of agent i
ScopeOf(i) == trainers[1].agents_scope.val[i]

\* states = env.reset()
MultiReset ==
    /\ pc = "start"
    /\ locals' = [locals EXCEPT !.states = ResetObs(0)]
    /\ env' = [env EXCEPT !.resets = @ + 1]
    /\ pc' = LoopTest(timestep)
    /\ UNCHANGED <<setupVars, unitVars, cfg, timestep, env_step_arg, memories, agent, log>>

\* for agent in agents: agent.pre_interaction(timestep, timesteps)
MultiPreInteraction ==
    /\ pc = "pre"
    /\ agent' = [i \in Agents |-> pre_interaction(agent[i], memories[i]).agent]
    /\ log' = log \o [i \in Agents |-> <<"pre_interaction", timestep, i>>]
    /\ pc' = Succ(pc)
    /\ UNCHANGED <<setupVars, unitVars, cfg, timestep, locals, env_step_arg, memories, env>>

\* actions = concatenation of agent.act(states[lo:hi], timestep, timesteps)
MultiAct ==
    /\ pc = "act"
    /\ LET r == [i \in Agents |->
                    DDPG_act(agent[i], Slice(locals.states, ScopeOf(i)), timestep,
                             cfg.timesteps)]
       IN  /\ agent' = [i \in Agents |-> r[i].agent]
           /\ locals' = [locals EXCEPT !.actions = [i \in Agents |-> r[i].actions]]
           /\ pc' = IF \A i \in Agents : r[i].raised = "none" THEN Succ(pc) ELSE "raised"
    /\ log' = log \o [i \in Agents |-> <<"act", timestep, i>>]
    /\ UNCHANGED <<setupVars, unitVars, cfg, timestep, env_step_arg, memories, env>>

\* next_states, rewards, dones, infos = env.step(actions); dones is all False
MultiEnvStep ==
    /\ pc = "step"
    /\ \E rw \in Rewards :
          locals' = [locals EXCEPT !.next_states = StepObs(timestep),
                                   !.rewards = rw,
                                   !.dones = [e \in E2EEnvIds |-> FALSE]]
    /\ env_step_arg' = locals.actions
    /\ env' = env
    /\ log' = Append(log, <<"env.step", timestep, 0>>)
    /\ pc' = Succ(pc)
    /\ UNCHANGED <<setupVars, unitVars, cfg, timestep, memories, agent>>

\* if not headless: env.render()
MultiRender ==
    /\ pc = "render"
    /\ log' = Append(log, <<"env.render", timestep, 0>>)
    /\ pc' = Succ(pc)
    /\ UNCHANGED <<setupVars, unitVars, cfg, timestep, locals, env_step_arg, memories, agent, env>>

\* for agent, scope: agent.record_transition(states[lo:hi], actions[lo:hi], ...)
MultiRecordTransition ==
    /\ pc = "record"
    /\ LET r == [i \in Agents |->
                    DDPG_record_transition(agent[i], memories[i],
                        Slice(locals.states, ScopeOf(i)), locals.actions[i],
                        locals.rewards, Slice(locals.next_states, ScopeOf(i)),
                        SliceDones(locals.dones, ScopeOf(i)), timestep, cfg.timesteps)]
       IN  /\ agent' = [i \in Agents |->
                           [r[i].agent EXCEPT !.record_out =
                               [t |-> timestep, adds |-> r[i].adds]]]
           /\ memories' = [i \in Agents |-> r[i].memories]
    /\ log' = log \o [i \in Agents |-> <<"record_transition", timestep, i>>]
    /\ pc' = Succ(pc)
    /\ UNCHANGED <<setupVars, unitVars, cfg, timestep, locals, env_step_arg, env>>

\* for agent in agents: agent.post_interaction(timestep, timesteps)
MultiPostInteraction ==
    /\ pc = "post"
    /\ \E draw \in [Agents -> 0..(cfg.capacity - 1)] :
          /\ \A i \in Agents : draw[i] \in SampleChoices(memories[i])
          /\ LET r == [i \in Agents |->
                          DDPG_post_interaction(agent[i], memories[i], timestep,
                                                cfg.timesteps, draw[i])]
             IN  /\ agent' = [i \in Agents |-> [r[i].agent EXCEPT !.post_out = r[i].out]]
                 /\ memories' = [i \in Agents |-> r[i].memories]
                 /\ pc' = IF \A i \in Agents : r[i].raised = "none"
                          THEN Succ(pc) ELSE "raised"
    /\ log' = log \o [i \in Agents |-> <<"post_interaction", timestep, i>>]
    /\ UNCHANGED <<setupVars, unitVars, cfg, timestep, locals, env_step_arg, env>>

\* if dones.any(): states = env.reset()  else: states.copy_(next_states)
MultiResetOrCopy ==
    /\ pc = "reset"
    /\ LET r == reset_or_copy(locals.next_states, locals.dones, timestep + 1)
       IN  /\ locals' = [locals EXCEPT !.states = r.states]
           /\ env' = [env EXCEPT !.resets = IF r.reset THEN @ + 1 ELSE @]
    /\ timestep' = timestep + 1
    /\ pc' = LoopTest(timestep + 1)
    /\ UNCHANGED <<setupVars, unitVars, cfg, env_step_arg, memories, agent, log>>

\* env.close()
MultiClose ==
    /\ pc = "close"
    /\ pc' = "done"
    /\ log' = Append(log, <<"env.close", timestep, 0>>)
    /\ UNCHANGED <<setupVars, unitVars, cfg, timestep, locals, env_step_arg, memories, agent, env>>

NextMulti ==
    \/ MultiReset
    \/ MultiPreInteraction
    \/ MultiAct
    \/ MultiEnvStep
    \/ MultiRender
    \/ MultiRecordTransition
    \/ MultiPostInteraction
    \/ MultiResetOrCopy
    \/ MultiClose

SpecMulti == InitMulti /\ [][NextMulti]_vars

(***************************************************************************)
(* DDPG.act on one element of the action tensor.                           *)
(* call: the element of the mean action policy.act returns, the element    *)
(* of the noise sample, the bounds of the action space for that element    *)
(* (init: clip_actions_min/max) and which of the two clipping statements   *)
(* the installed torch selects; ret: what act returns.  The element is     *)
(* kept in multiples of 1 / ret.unit, with ret.unit = One * decay, so that *)
(* scale * noise is a whole number.  Noise samples are finite; the mean    *)
(* action is any float.                                                    *)
(***************************************************************************)
\* a <= b on floats; every comparison with NaN is false
FLeq(a, b) ==
    IF a.kind = "nan" \/ b.kind = "nan" THEN FALSE
    ELSE IF a.kind = "fin" /\ b.kind = "fin" THEN a.v <= b.v
    ELSE IF a.kind = "inf" THEN (a.v < 0 \/ a = b)
    ELSE b.v > 0

\* torch.min / torch.max of two elements: NaN propagates
FMin(a, b) ==
    IF a.kind = "nan" \/ b.kind = "nan" THEN NaN
    ELSE IF FLeq(a, b) THEN a ELSE b

FMax(a, b) ==
    IF a.kind = "nan" \/ b.kind = "nan" THEN NaN
    ELSE IF FLeq(a, b) THEN b ELSE a

\* Variant of the clipping: the noisy action is returned as it is.
clamp_none(x, lo, hi, backward) == x

\* torch.max(torch.min(actions[0], clip_actions_max), clip_actions_min), or
\* actions[0].clamp_(min=clip_actions_min, max=clip_actions_max)
clamp(x, lo, hi, backward) ==
    IF backward THEN FMax(FMin(x, hi), lo)
    ELSE FMin(FMax(x, lo), hi)

\* noises.mul_(scale); actions[0].add_(noises), for scale = num / (One * den)
\* and in multiples of 1 / (One * den)
add_noise(mean, noise, scale) ==
    FAdd(FMul(Fin(One * scale[2]), mean), FMul(Fin(scale[1]), noise))

MaxAction == 2
MaxNoise == 3

MeanChoices == {Fin(v) : v \in (0 - MaxAction)..MaxAction} \cup {Inf(1), Inf(0 - 1), NaN}
NoiseChoices == {Fin(0 - MaxNoise), Fin(0), Fin(MaxNoise)}
LowChoices == {Fin(0 - 1), Inf(0 - 1)}
HighChoices == {Fin(1), Inf(1)}

NoiseConfigs ==
    {c \in ActConfigs : c.exploration_noise /\ c.exploration_timesteps # <<0>>}

InitNoise ==
    /\ SetupDone
    /\ cfg \in NoiseConfigs
    /\ pc = "idle"
    /\ timestep = 0
    /\ locals = <<>>
    /\ env_step_arg = <<>>
    /\ memories = <<>>
    /\ agent = NewAgent
    /\ log = <<>>
    /\ env = <<>>
    /\ call \in [method : {"DDPG.act"}, mean : MeanChoices, noise : NoiseChoices,
                 low : LowChoices, high : HighChoices, backward : BOOLEAN]
    /\ ret = <<>>

\* actions, _, _ = agent.act(states, timestep, timesteps)
DDPGActElement ==
    /\ timestep <= MaxTimesteps
    /\ LET r == DDPG_act(agent, StepObs(timestep), timestep, MaxTimesteps)
           unit == IF r.actions.noise THEN One * r.actions.scale[2] ELSE One
           noisy == add_noise(call.mean, call.noise, r.actions.scale)
       IN  /\ agent' = r.agent
           /\ ret' = [t |-> timestep, raised |-> r.raised, actions |-> r.actions,
                      unit |-> unit,
                      noisy |-> IF r.actions.noise THEN noisy
                                ELSE FMul(Fin(unit), call.mean),
                      element |-> IF r.actions.noise
                                  THEN clamp(noisy, FMul(Fin(unit), call.low),
                                             FMul(Fin(unit), call.high), call.backward)
                                  ELSE FMul(Fin(unit), call.mean)]
    /\ timestep' = timestep + 1
    /\ UNCHANGED <<setupVars, cfg, pc, locals, env_step_arg, memories, log, env, call>>

NextNoise == DDPGActElement

SpecNoise == InitNoise /\ [][NextNoise]_vars

(***************************************************************************)
(* SARSA's tabular update, with the numbers.                               *)
(* One agent is driven through record_transition and post_interaction for  *)
(* TabTimesteps timesteps.  call: the arguments of the last                *)
(* record_transition; ret: the Q-table of the policy after the last        *)
(* post_interaction, the table before it and the next actions policy.act   *)
(* returned.  Table entries, states and actions are per environment; the   *)
(* reward is one number for the batch.  Entries are whole multiples of     *)
(* 1 / ret.unit: an update multiplies the unit by UnitFactor, so that      *)
(* learning_rate and discount_factor act exactly.                          *)
(***************************************************************************)
\* SARSA_DEFAULT_CONFIG["learning_rate"] is 0.5, ["discount_factor"] is 0.99
learning_rate == <<1, 2>>
discount_factor == <<99, 100>>

UnitFactor == learning_rate[2] * discount_factor[2]

TabTimesteps == 2

TabStates == {0, 1}
TabActions == {0, 1}
TabIndex == EnvIds \X TabStates \X TabActions

\* Variant of the update: the bootstrap term is not masked by the dones.
q_table_update_unmasked(q_table, cur, next_actions, unit) ==
    [i \in TabIndex |->
        LET e == i[1]
            q == q_table[<<e, cur.states[e], cur.actions[e]>>]
            q_next == q_table[<<e, cur.next_states[e], next_actions[e]>>]
        IN  IF i[2] = cur.states[e] /\ i[3] = cur.actions[e]
            THEN UnitFactor * q
                    + learning_rate[1] * (discount_factor[2] * unit * cur.rewards
                                            + discount_factor[1] * q_next
                                            - discount_factor[2] * q)
            ELSE UnitFactor * q_table[i]]

\* q_table[env_ids, states, actions] += learning_rate
\*     * (rewards + discount_factor * dones.logical_not()
\*           * q_table[env_ids, next_states, next_actions]
\*        - q_table[env_ids, states, actions])
\* The right-hand side is evaluated on the table before the assignment; the
\* result is in multiples of 1 / (unit * UnitFactor).
q_table_update(q_table, cur, next_actions, unit) ==
    [i \in TabIndex |->
        LET e == i[1]
            q == q_table[<<e, cur.states[e], cur.actions[e]>>]
            q_next == q_table[<<e, cur.next_states[e], next_actions[e]>>]
            not_done == IF cur.dones[e] THEN 0 ELSE 1
        IN  IF i[2] = cur.states[e] /\ i[3] = cur.actions[e]
            THEN UnitFactor * q
                    + learning_rate[1] * (discount_factor[2] * unit * cur.rewards
                                            + discount_factor[1] * not_done * q_next
                                            - discount_factor[2] * q)
            ELSE UnitFactor * q_table[i]]

\* the table the policy starts with: eight different whole numbers
InitialTable == [i \in TabIndex |-> 1 + i[2] + 2 * i[3] + 4 * (i[1] - 1)]

\* the transitions of the two environments: every (s, a, s', done) for the
\* first, one for the second
TabTransitions ==
    {[states |-> [e \in EnvIds |-> IF e = 1 THEN s ELSE 0],
      actions |-> [e \in EnvIds |-> IF e = 1 THEN a ELSE 1],
      rewards |-> 1,
      next_states |-> [e \in EnvIds |-> IF e = 1 THEN s2 ELSE 1],
      dones |-> [e \in EnvIds |-> IF e = 1 THEN d ELSE FALSE]] :
        s \in TabStates, a \in TabActions, s2 \in TabStates, d \in BOOLEAN}

TabConfigs ==
    [agent : {"SARSA"},
     timesteps : {TabTimesteps},
     headless : {TRUE},
     learning_starts : {0, 1},
     random_timesteps : {0},
     rewards_shaper : BOOLEAN,
     exploration_noise : {FALSE},
     exploration_timesteps : {<<>>},
     gradient_steps : {1},
     n_memories : {0}]

InitTab ==
    /\ SetupDone
    /\ cfg \in TabConfigs
    /\ pc = "record"
    /\ timestep = 0
    /\ locals = <<>>
    /\ env_step_arg = <<>>
    /\ memories = <<>>
    /\ agent = NewAgent
    /\ log = <<>>
    /\ env = <<>>
    /\ call = <<>>
    /\ ret = [t |-> 0 - 1, updated |-> FALSE, q_table |-> InitialTable, unit |-> 1,
              before |-> InitialTable, next_actions |-> <<>>]

\* agent.record_transition(states, actions, rewards, next_states, dones, ...)
TabRecordTransition ==
    /\ pc = "record"
    /\ timestep < TabTimesteps
    /\ \E tr \in TabTransitions :
          LET r == SARSA_record_transition(agent, memories, tr.states, tr.actions,
                                           tr.rewards, tr.next_states, tr.dones,
                                           timestep, cfg.timesteps)
          IN  /\ agent' = [r.agent EXCEPT !.record_out = [t |-> timestep]]
              /\ memories' = r.memories
              /\ call' = [t |-> timestep, states |-> tr.states, actions |-> tr.actions,
                          rewards |-> tr.rewards, next_states |-> tr.next_states,
                          dones |-> tr.dones]
    /\ pc' = "post"
    /\ UNCHANGED <<setupVars, cfg, timestep, locals, env_step_arg, log, env, ret>>

\* agent.post_interaction(timestep, timesteps), with the table _update writes
TabPostInteraction ==
    /\ pc = "post"
    /\ \E next_actions \in [EnvIds -> TabActions] :
          LET r == SARSA_post_interaction(agent, memories, timestep, cfg.timesteps, 0)
          IN  /\ r.raised = "none"
              /\ agent' = [r.agent EXCEPT !.post_out = r.out]
              /\ memories' = r.memories
              /\ ret' = IF r.out.updated
                        THEN [t |-> timestep, updated |-> TRUE,
                              q_table |-> q_table_update(ret.q_table, agent.current,
                                                         next_actions, ret.unit),
                              unit |-> ret.unit * UnitFactor,
                              before |-> ret.q_table,
                              next_actions |-> next_actions]
                        ELSE [t |-> timestep, updated |-> FALSE,
                              q_table |-> ret.q_table, unit |-> ret.unit,
                              before |-> ret.q_table, next_actions |-> <<>>]
    /\ timestep' = timestep + 1
    /\ pc' = "record"
    /\ UNCHANGED <<setupVars, cfg, locals, env_step_arg, log, env, call>>

NextTab == TabRecordTransition \/ TabPostInteraction

SpecTab == InitTab /\ [][NextTab]_vars

(***************************************************************************)
(* Properties of Trainer construction (checked under SpecSetup).           *)
(***************************************************************************)
\* ranges chain from 0 to n: no gap, no overlap
Chained(r, n) ==
    /\ Len(r) > 0
    /\ r[1][1] = 0
    /\ r[Len(r)][2] = n
    /\ \A i \in 2..Len(r) : r[i][1] = r[i - 1][2]

\* Trainer(...) calls with several agents and an empty / explicit list of sizes
AutoCalls == {k \in 1..Len(trainers) :
                 agents_is_list /\ agents_len > 1 /\ Len(trainers[k].given.val) = 0}
ExplicitCalls == {k \in 1..Len(trainers) :
                     /\ agents_is_list /\ agents_len > 1
                     /\ trainers[k].given.kind = "sizes"
                     /\ Len(trainers[k].given.val) > 0}

\* C1: for num_envs >= num_agents > 1 and an empty agents_scope, the ranges the
\* constructor produces, and the sizes generate_equally_spaced_scopes returns,
\* partition [0, num_envs): start at 0, chained, end at num_envs, every range
\* non-empty, sizes summing to num_envs.
C1_AutoPartitionComplete ==
    /\ \A k \in AutoCalls :
          num_envs >= agents_len =>
             LET t == trainers[k] IN
             /\ t.raised = "none"
             /\ t.agents_scope.kind = "ranges"
             /\ Len(t.agents_scope.val) = agents_len
             /\ Chained(t.agents_scope.val, num_envs)
             /\ \A i \in 1..agents_len :
                   t.agents_scope.val[i][1] < t.agents_scope.val[i][2]
    /\ (generated.called /\ generated.n >= generated.m /\ generated.m > 1) =>
          LET g == generated.result IN
          /\ g.raised = "none"
          /\ Len(g.scopes) = generated.m
          /\ Sum(g.scopes) = generated.n
          /\ \A i \in 1..Len(g.scopes) : g.scopes[i] >= 1
          /\ Chained(CumulativeRanges(g.scopes), generated.n)

C1_Witness ==
    /\ \E k \in AutoCalls : trainers[k].raised = "none" /\ num_envs % agents_len # 0
    /\ generated.called /\ generated.m > 1 /\ generated.result.raised = "none"

\* C2: for num_envs >= num_agents > 0 every agent but the last gets
\* floor(num_envs / num_agents) environments and the last gets that plus
\* num_envs mod num_agents (10 and 3 give [3, 3, 4]).
C2_RemainderToLast ==
    /\ (generated.called /\ generated.n >= generated.m /\ generated.m > 0) =>
          LET g == generated.result
              q == generated.n \div generated.m
          IN  /\ g.raised = "none"
              /\ Len(g.scopes) = generated.m
              /\ \A i \in 1..(generated.m - 1) : g.scopes[i] = q
              /\ g.scopes[generated.m] = q + (generated.n % generated.m)
    /\ \A k \in AutoCalls :
          num_envs >= agents_len =>
             LET r == trainers[k].agents_scope.val
                 q == num_envs \div agents_len
             IN  /\ trainers[k].raised = "none"
                 /\ Len(r) = agents_len
                 /\ \A i \in 1..(agents_len - 1) : r[i][2] - r[i][1] = q
                 /\ r[agents_len][2] - r[agents_len][1] = q + (num_envs % agents_len)
    /\ generate_equally_spaced_scopes(10, 3).scopes = <<3, 3, 4>>

C2_Witness ==
    /\ generated.called /\ generated.m > 1 /\ generated.n > generated.m
    /\ generated.n % generated.m # 0
    /\ \E k \in AutoCalls : trainers[k].raised = "none" /\ num_envs % agents_len # 0

\* C3: auto-partitioning raises whenever num_agents > num_envs and does not
\* raise when num_envs >= num_agents > 0 (3 environments, 5 agents: raises).
C3_InsufficientEnvironments ==
    /\ generated.called /\ generated.m > 0 =>
          (generated.result.raised = "ValueError") <=> (generated.m > generated.n)
    /\ generated.called /\ generated.m > 0 /\ generated.n >= generated.m =>
          generated.result.raised = "none"
    /\ \A k \in AutoCalls :
          /\ (trainers[k].raised = "ValueError: more agents than environments")
                <=> (agents_len > num_envs)
          /\ num_envs >= agents_len => trainers[k].raised = "none"
    /\ generate_equally_spaced_scopes(3, 5).raised = "ValueError"

C3_Witness ==
    /\ generated.called /\ generated.m > generated.n /\ generated.n > 0
    /\ \E k \in AutoCalls :
          /\ trainers[k].raised = "ValueError: more agents than environments"
          /\ num_envs > 0

\* C4: with several agents and a non-empty list of sizes the constructor
\* raises if the list's length differs from the number of agents, otherwise
\* raises if the sizes do not sum to env.num_envs, and returns only when both
\* match; it raises before any environment or agent lifecycle call.
C4_ExplicitScopeValidation ==
    \A k \in ExplicitCalls :
       LET t == trainers[k]
           lenOk == Len(t.given.val) = agents_len
           sumOk == Sum(t.given.val) = num_envs
       IN  /\ ~lenOk => t.raised = "ValueError: scopes don't match agents"
           /\ (lenOk /\ ~sumOk) => t.raised = "ValueError: scopes don't cover environments"
           /\ (t.raised = "none") <=> (lenOk /\ sumOk)
           \* the constructor has made no environment or lifecycle call
           /\ log = <<>> /\ pc = "idle"

C4_Witness ==
    /\ \E k \in ExplicitCalls :
          trainers[k].raised = "ValueError: scopes don't cover environments"
    /\ Len(trainers) = 1

\* C5: every explicit list of integer sizes the multi-agent constructor
\* accepts (zero or negative entries included) becomes ranges with lo_0 = 0,
\* lo_i = hi_(i-1), lo_i <= hi_i and hi_last = num_envs.
C5_AcceptedScopesPartition ==
    \A k \in ExplicitCalls :
       trainers[k].raised = "none" =>
          LET r == trainers[k].agents_scope.val IN
          /\ trainers[k].agents_scope.kind = "ranges"
          /\ Chained(r, num_envs)
          /\ \A i \in 1..Len(r) : r[i][1] <= r[i][2]

(***************************************************************************)
(* Properties of the training loop and of the agents' lifecycle methods    *)
(* (checked under Spec).                                                   *)
(***************************************************************************)
IsPrefix(a, b) == Len(a) <= Len(b) /\ \A i \in 1..Len(a) : a[i] = b[i]

\* the calls of one iteration of single_agent_train, and of a whole run
IterationCalls(t) ==
    <<<<"pre_interaction", t>>, <<"act", t>>, <<"env.step", t>>>>
    \o (IF cfg.headless THEN <<>> ELSE <<<<"env.render", t>>>>)
    \o <<<<"record_transition", t>>, <<"post_interaction", t>>>>

RECURSIVE RunCalls(_)
RunCalls(n) == IF n = 0 THEN <<>> ELSE RunCalls(n - 1) \o IterationCalls(n - 1)

\* C6: in every iteration of single_agent_train the calls are, in this order
\* and once each with the iteration's timestep, pre_interaction, act,
\* env.step (with the actions act returned), record_transition,
\* post_interaction; nothing of timestep t+1 precedes post_interaction of t.
C6_LifecycleOrder ==
    /\ IsPrefix(log, RunCalls(cfg.timesteps) \o <<<<"env.close", cfg.timesteps>>>>)
    /\ pc = "done" => Len(log) = Len(RunCalls(cfg.timesteps)) + 1
    /\ pc \in {"render", "record", "post", "reset"} =>
          /\ agent.act_out.t = timestep
          /\ env_step_arg = agent.act_out.actions
          /\ env_step_arg.states = locals.states

C6_Witness ==
    /\ pc = "done" /\ ~cfg.headless /\ timestep > 1
    /\ log[Len(log) - 1] = <<"post_interaction", timestep - 1>>

\* the post_interaction calls that have returned, and those at or past learning_starts
PostsDone == IF pc = "reset" THEN timestep + 1 ELSE timestep
UpdatesDue == Cardinality({t \in 0..(PostsDone - 1) : t >= cfg.learning_starts})

\* C7: for DDPG and SARSA, post_interaction(timestep) invokes the update
\* engine exactly when timestep >= learning_starts, so no gradient step,
\* table update or soft update happens before learning_starts; the base
\* class post_interaction is called either way.
C7_LearningStartsGate ==
    /\ agent.post_out.t >= 0 =>
          /\ agent.post_out.updated <=> (agent.post_out.t >= cfg.learning_starts)
          /\ agent.post_out.updated <=> (agent.post_out.ops # <<>>)
          /\ agent.post_out.base
    /\ agent.base_post_calls = PostsDone
    /\ cfg.agent = "DDPG" =>
          /\ agent.samples = UpdatesDue
          /\ agent.critic_steps = cfg.gradient_steps * UpdatesDue
          /\ agent.policy_steps = cfg.gradient_steps * UpdatesDue
          /\ agent.target_policy_updates = cfg.gradient_steps * UpdatesDue
          /\ agent.target_critic_updates = cfg.gradient_steps * UpdatesDue
          /\ agent.table_updates = 0
    /\ cfg.agent = "SARSA" =>
          /\ agent.table_updates = UpdatesDue
          /\ agent.critic_steps = 0 /\ agent.policy_steps = 0
    /\ timestep < cfg.learning_starts =>
          /\ agent.critic_steps = 0 /\ agent.policy_steps = 0
          /\ agent.target_policy_updates = 0 /\ agent.target_critic_updates = 0
          /\ agent.table_updates = 0

C7_Witness ==
    /\ cfg.learning_starts > 0
    /\ pc = "reset" /\ timestep = cfg.learning_starts
    /\ agent.post_out.updated
    /\ agent.base_post_calls = timestep + 1

\* C8: for DDPG and SARSA, act returns policy.random_act's result when
\* timestep < random_timesteps (policy.act is not called, no noise, no
\* clipping) and an action derived from policy.act otherwise.
C8_WarmUp ==
    agent.act_out.t >= 0 =>
       LET o == agent.act_out IN
       /\ o.t < cfg.random_timesteps =>
             /\ o.calls = <<"policy.random_act">>
             /\ o.actions = [NoActions EXCEPT !.by = "policy.random_act", !.states = o.states]
             /\ o.tracked = <<>>
       /\ o.t >= cfg.random_timesteps =>
             /\ o.calls[1] = "policy.act"
             /\ \A i \in 1..Len(o.calls) : o.calls[i] # "policy.random_act"
             /\ o.actions.by = "policy.act"
             /\ o.actions.states = o.states

C8_Witness ==
    /\ agent.act_out.t = 0 /\ cfg.random_timesteps = 1
    /\ cfg.agent = "DDPG" /\ cfg.exploration_noise
    /\ agent.act_out.actions.by = "policy.random_act"

\* C9: of DDPG's lifecycle methods only record_transition changes a memory:
\* pre_interaction, act and post_interaction (with the update engine's
\* sampling) leave cursor, fill count and rows of every memory unchanged.
C9_OnlyRecordWritesMemory ==
    [][(cfg.agent = "DDPG" /\ memories' # memories) => (pc = "record")]_vars

C9_Witness ==
    /\ cfg.agent = "DDPG" /\ cfg.n_memories > 1
    /\ pc = "reset" /\ agent.post_out.t = timestep /\ agent.post_out.updated
    /\ agent.sampled # <<>>
    /\ memories[1].fill_count > 0

\* C10: record_transition (DDPG and SARSA) shapes the rewards, when a shaper
\* is configured, with the call's timestep and timesteps, and then makes one
\* add_samples on the primary memory and one on every secondary memory, all
\* with the same states, actions, shaped rewards, next_states and dones.
C10_RecordTransition ==
    /\ agent.record_out.t >= 0 =>
          LET g == agent.record_out.given
              shaped == IF cfg.rewards_shaper
                        THEN rewards_shaper(g.rewards, agent.record_out.t, cfg.timesteps)
                        ELSE g.rewards
              row == [states |-> g.states, actions |-> g.actions, rewards |-> shaped,
                      next_states |-> g.next_states, dones |-> g.dones]
          IN  agent.record_out.adds = [i \in 1..cfg.n_memories |-> <<i, row>>]
    /\ \A i \in 1..Len(memories) : memories[i] = memories[1]
    /\ Len(memories) = cfg.n_memories

C10_Witness ==
    /\ pc = "post" /\ agent.record_out.t = timestep /\ timestep > 0
    /\ cfg.rewards_shaper /\ cfg.n_memories > 1
    /\ agent.record_out.given.rewards = 1
    /\ agent.record_out.adds[2][2].rewards = rewards_shaper(1, timestep, cfg.timesteps)

(***************************************************************************)
(* The reset policy of single_agent_train (checked under Spec).            *)
(***************************************************************************)
\* the env.step of the current timestep has returned and the end of the loop
\* body has not run yet
StepTaken == locals.next_states = StepObs(timestep)

\* the observations the loop holds when it calls act at `timestep`
StatesForAct ==
    IF timestep = 0 THEN ResetObs(0)
    ELSE IF any(locals.dones) THEN ResetObs(timestep)
    ELSE StepObs(timestep - 1)

\* C11: env.reset is called once before the first timestep and, after that,
\* once at the end of each timestep whose dones hold a TRUE and never at the
\* end of a timestep whose dones are all FALSE; the states given to the next
\* act are the result of that reset in the first case and the next_states of
\* the timestep's env.step in the second.
C11_ResetPolicy ==
    /\ pc = "start" => env.resets = 0
    /\ pc # "start" =>
          env.resets = 1 + env.done_steps
                         - (IF StepTaken /\ any(locals.dones) THEN 1 ELSE 0)
    /\ pc \in {"pre", "act"} => locals.states = StatesForAct
    /\ pc = "step" =>
          /\ agent.act_out.t = timestep
          /\ agent.act_out.states = StatesForAct

\* act of timestep 2 was given a fresh reset after one timestep that ended an
\* episode and one that did not
C11_Witness ==
    /\ pc = "step"
    /\ timestep = 2
    /\ env.resets = 2
    /\ agent.act_out.states \in {ResetObs(2), StepObs(1)}

(***************************************************************************)
(* Properties of single_agent_eval (checked under SpecEval).               *)
(***************************************************************************)
\* C12: during single_agent_eval of a DDPG or SARSA agent, whatever
\* learning_starts is, the update engine is never invoked: no batch is
\* sampled, no optimizer step, soft-update or Q-table update is made, and the
\* agent's own post_interaction is not run.
C12_EvalNeverLearns ==
    /\ agent.samples = 0
    /\ agent.critic_steps = 0
    /\ agent.policy_steps = 0
    /\ agent.target_policy_updates = 0
    /\ agent.target_critic_updates = 0
    /\ agent.table_updates = 0
    /\ agent.post_out.t >= 0 =>
          /\ ~agent.post_out.updated
          /\ agent.post_out.ops = <<>>

\* an evaluation ran to its end although every timestep was past learning_starts
C12_Witness ==
    /\ pc = "done"
    /\ cfg.learning_starts = 0
    /\ agent.base_post_calls = cfg.timesteps
    /\ agent.post_out.t = cfg.timesteps - 1

\* the calls single_agent_train makes in timestep t, with the evaluation's
\* post_interaction in place of the agent's
TrainLikeIterationCalls(t) ==
    <<<<"pre_interaction", t>>, <<"act", t>>, <<"env.step", t>>>>
    \o (IF cfg.headless THEN <<>> ELSE <<<<"env.render", t>>>>)
    \o <<<<"record_transition", t>>, <<"Agent.post_interaction", t>>>>

RECURSIVE TrainLikeRunCalls(_)
TrainLikeRunCalls(n) ==
    IF n = 0 THEN <<>> ELSE TrainLikeRunCalls(n - 1) \o TrainLikeIterationCalls(n - 1)

\* C13 (as stated): single_agent_eval makes the calls of single_agent_train in
\* every timestep (pre_interaction, act, env.step, the agent's
\* record_transition writing to its memories, post_interaction), only
\* post_interaction being the base class's.
C13_EvalSameCallsAsTrain ==
    pc = "done" =>
        /\ log = TrainLikeRunCalls(cfg.timesteps) \o <<<<"env.close", cfg.timesteps>>>>
        /\ \A i \in 1..Len(memories) : memories[i].fill_count > 0

\* the calls single_agent_eval makes in timestep t
EvalIterationCalls(t) ==
    <<<<"act", t>>, <<"env.step", t>>>>
    \o (IF cfg.headless THEN <<>> ELSE <<<<"env.render", t>>>>)
    \o <<<<"Agent.record_transition", t>>, <<"Agent.post_interaction", t>>>>

RECURSIVE EvalRunCalls(_)
EvalRunCalls(n) == IF n = 0 THEN <<>> ELSE EvalRunCalls(n - 1) \o EvalIterationCalls(n - 1)

\* C13 (amended): in every timestep single_agent_eval calls act, env.step,
\* (env.render,) the base class's record_transition and the base class's
\* post_interaction, in this order, then resets or copies as training does.
\* It makes no pre_interaction call and never runs the agent's own
\* record_transition: nothing is added to a memory and SARSA's current
\* transition is never set.
C13_EvalCalls ==
    /\ IsPrefix(log, EvalRunCalls(cfg.timesteps) \o <<<<"env.close", cfg.timesteps>>>>)
    /\ pc = "done" => Len(log) = Len(EvalRunCalls(cfg.timesteps)) + 1
    /\ ~agent.current.set
    /\ \A i \in 1..Len(memories) : memories[i] = NewMemory
    /\ pc \in {"act", "step"} => locals.states = StatesForAct

\* an evaluation ran to its end: one base-class record_transition per timestep
C13_Witness ==
    /\ pc = "done"
    /\ agent.base_record_calls = cfg.timesteps
    /\ Len(memories) > 0
    /\ env.resets > 1

(***************************************************************************)
(* Properties of DDPG.__init__ (checked under SpecConstruct).              *)
(***************************************************************************)
Constructed == ret # <<>> /\ ret.raised = "none"

\* the target of role `t` is frozen and holds the parameters of the online
\* model of role `o`
HardCopied(t, o) ==
    /\ ret[t].frozen
    /\ ret[o] # None
    /\ ret[t].params = ret[o].params

\* C15: after DDPG construction, each target network that exists (a target
\* policy and/or a target critic was supplied) is frozen and is a hard copy
\* (polyak = 1) of its online counterpart.
C15_TargetsInitialised ==
    Constructed =>
        /\ ret.target_policy # None => HardCopied("target_policy", "policy")
        /\ ret.target_critic # None => HardCopied("target_critic", "critic")

\* C16: constructing DDPG with a models dictionary that lacks a required role
\* raises KeyError at construction.
C16_MissingRoleRaisesKeyError ==
    (ret # <<>> /\ Roles \ DOMAIN call.models # {}) => ret.raised = "KeyError"

(***************************************************************************)
(* Properties of DDPG.act (checked under SpecAct).                         *)
(***************************************************************************)
\* the last act call had a noise source and was past the random timesteps
NoisyCall ==
    /\ ret # <<>>
    /\ cfg.exploration_noise
    /\ ret.t >= cfg.random_timesteps

\* the noise scale of the last call, a fraction, equals x thousandths
ScaleIs(x) ==
    /\ ret.actions.noise
    /\ ret.actions.scale[1] = x * ret.actions.scale[2]

\* the last call added no noise and tracked three zeros
NoNoiseZeroMetrics ==
    /\ ret.raised = "none"
    /\ ~ret.actions.noise
    /\ ret.actions.by = "policy.act"
    /\ ret.tracked = <<"0", "0", "0">>

\* decay_timesteps is the configured value or, when unset, the total
\* timesteps passed to the first call that reached the noise branch
DecayDefault ==
    /\ agent.exploration_timesteps # <<>>
    /\ agent.exploration_timesteps =
          (IF cfg.exploration_timesteps = <<>> THEN call.first
           ELSE cfg.exploration_timesteps)

EndsWith(s, t) ==
    /\ Len(s) >= Len(t)
    /\ SubSeq(s, Len(s) - Len(t) + 1, Len(s)) = t

\* target <- polyak * online + (1 - polyak) * target, in thousandths
SoftUpdated(target, online) == (Polyak * online + (One - Polyak) * target) \div One

\* C18: in every gradient step of DDPG._update the critic's optimizer step
\* comes first, then the policy's, then the soft-update of the target policy
\* and of the target critic with the configured polyak; a target changes
\* only in its soft-update, hence never between the computation of the target
\* values and the policy's optimizer step; and when a gradient step ends each
\* target has been soft-updated once per gradient step made.
C18_SoftUpdateOrdering ==
    [][/\ (ret'.target_policy # ret.target_policy
              \/ ret'.target_policy_updates # ret.target_policy_updates) =>
             /\ EndsWith(ret.ops, <<"target_values", "critic_optimizer.step",
                                    "policy_optimizer.step">>)
             /\ ret'.target_policy = SoftUpdated(ret.target_policy, ret.policy)
             /\ ret'.target_policy_updates = ret.entered
       /\ (ret'.target_critic # ret.target_critic
              \/ ret'.target_critic_updates # ret.target_critic_updates) =>
             /\ EndsWith(ret.ops, <<"target_values", "critic_optimizer.step",
                                    "policy_optimizer.step",
                                    "target_policy.update_parameters">>)
             /\ ret'.target_critic = SoftUpdated(ret.target_critic, ret.critic)
             /\ ret'.target_critic_updates = ret.entered
       /\ (ret.pc # "sample" /\ ret'.pc \in {"target_values", "return"}) =>
             /\ ret'.target_policy_updates = ret.entered
             /\ ret'.target_critic_updates = ret.entered
      ]_vars

\* an update of two gradient steps has returned: two soft-updates of each target
C18_Witness ==
    /\ ret.pc = "return"
    /\ call.gradient_steps = 2
    /\ ret.target_policy_updates = 2
    /\ ret.target_critic_updates = 2
    /\ ret.target_critic # call.params

Count(s, x) == Cardinality({i \in 1..Len(s) : s[i] = x})

\* C19: each DDPG post_interaction with timestep >= learning_starts makes
\* exactly gradient_steps gradient steps and samples one batch from the
\* primary memory in each of them: gradient_steps sample calls.
C19_SamplePerGradientStep ==
    (cfg.agent = "DDPG" /\ agent.post_out.t >= 0
        /\ agent.post_out.t >= cfg.learning_starts) =>
        /\ Count(agent.post_out.ops, "critic_optimizer.step") = cfg.gradient_steps
        /\ Count(agent.post_out.ops, "policy_optimizer.step") = cfg.gradient_steps
        /\ Count(agent.post_out.ops, "memory.sample") = cfg.gradient_steps

\* the target value the claim gives for a row, in floating-point arithmetic
ClaimedTarget(row, q) ==
    IF row.done THEN Fin(One * row.reward)
    ELSE FAdd(Fin(One * row.reward), FMul(Fin(Discount), q))

\* C20 (as stated): for a sampled row with done = true the target value is
\* exactly the row's reward whatever the target critic outputs; for a row
\* with done = false it is reward + discount_factor * target critic's output.
C20_TerminalMasking ==
    ret.target_values # <<>> =>
        \A i \in BatchRows : ret.target_values[i] = ClaimedTarget(ret.batch[i], ret.q[i])

\* C20 (amended): the same whenever the target critic's output for the row is
\* finite; for a row with done = true and an infinite or NaN output the
\* target value is NaN.
C20_TerminalMaskingFinite ==
    ret.target_values # <<>> =>
        \A i \in BatchRows :
            /\ (ret.q[i].kind = "fin" \/ ~ret.batch[i].done) =>
                  ret.target_values[i] = ClaimedTarget(ret.batch[i], ret.q[i])
            /\ (ret.q[i].kind # "fin" /\ ret.batch[i].done) =>
                  ret.target_values[i] = NaN

\* a batch with a terminal and a non-terminal row, the target critic's output
\* being non-zero for both
C20_Witness ==
    /\ ret.target_values # <<>>
    /\ ret.batch[1].done /\ ret.batch[1].reward = 1
    /\ ~ret.batch[2].done
    /\ ret.q[1] = Fin(MaxQ) /\ ret.q[2] = Fin(MaxQ)
    /\ ret.target_values[1] = Fin(One)
    /\ ret.target_values[2].v > One * ret.batch[2].reward

(***************************************************************************)
(* Properties of the multi-agent training loop (checked under SpecMulti).  *)
(***************************************************************************)
\* the number of record_transition calls every agent has received
RecordsDoneMulti == IF pc \in {"post", "reset"} THEN timestep + 1 ELSE timestep

\* the number of post_interaction calls every agent has received
PostsDoneMulti == IF pc = "reset" THEN timestep + 1 ELSE timestep

C25_CallerListUnchanged ==
    \A k \in 1..Len(trainers) :
        (/\ agents_is_list /\ agents_len > 1
         /\ trainers[k].given.kind = "sizes"
         /\ Len(trainers[k].given.val) > 0
         /\ trainers[k].raised = "none") =>
            /\ trainers[k].caller_list = trainers[k].given
            /\ k < Len(trainers) =>
                  /\ trainers[k + 1].raised = "none"
                  /\ trainers[k + 1].agents_scope = trainers[k].agents_scope

(***************************************************************************)
(* Sampling and aliasing in single_agent_train (checked under Spec).       *)
(***************************************************************************)
\* C23: in single_agent_train with a DDPG agent that has a primary memory,
\* whatever learning_starts is, every memory.sample of the update engine
\* comes after an add_samples to the primary memory: the update of timestep
\* t runs after the record_transition of timestep t has written the primary
\* memory, the memory is not empty and no update raises.
C23_SampleAfterAdd ==
    cfg.agent = "DDPG" =>
        /\ pc # "raised"
        /\ agent.samples > 0 => memories[1].fill_count > 0
        /\ (agent.post_out.t >= 0 /\ agent.post_out.updated) =>
              /\ Count(agent.post_out.ops, "memory.sample") > 0
              /\ agent.record_out.t >= agent.post_out.t
              /\ Len(agent.record_out.adds) > 0
              /\ agent.record_out.adds[1][1] = 1
              /\ agent.sampled # <<>>

\* the first update, at timestep 0 with learning_starts = 0, sampled the one
\* transition the memory holds
C23_Witness ==
    /\ cfg.agent = "DDPG"
    /\ cfg.learning_starts = 0
    /\ pc = "reset"
    /\ timestep = 0
    /\ agent.post_out.updated
    /\ agent.samples = 1
    /\ memories[1].fill_count = 1

\* C24: when SARSA's post_interaction (and with it _update) runs in
\* single_agent_train, _current_states still holds the states that were
\* passed to act in the same timestep, although it refers to the trainer's
\* states buffer: the in-place copy of next_states into that buffer happens
\* after post_interaction; the same holds when post_interaction has returned
\* and the copy has not been made yet.
C24_CurrentStatesAtUpdate ==
    (cfg.agent = "SARSA" /\ pc \in {"post", "reset"}) =>
        /\ agent.current.set
        /\ agent.act_out.t = timestep
        /\ agent.current.states = agent.act_out.states
        /\ agent.current.states = locals.states
        /\ agent.current.states # agent.current.next_states

\* an update is about to run in timestep 1, after the in-place copy at the end
\* of timestep 0 had overwritten what _current_states referred to
C24_Witness ==
    /\ cfg.agent = "SARSA"
    /\ cfg.learning_starts = 0
    /\ pc = "post"
    /\ timestep = 1
    /\ agent.post_out.t = 0
    /\ agent.post_out.updated
    /\ agent.current.states = StepObs(0)

(***************************************************************************)
(* Clipping of the noisy action (checked under SpecNoise).                 *)
(***************************************************************************)
NoiseAdded == IF ret = <<>> THEN FALSE ELSE ret.raised = "none" /\ ret.actions.noise

InActionRange ==
    /\ FLeq(FMul(Fin(ret.unit), call.low), ret.element)
    /\ FLeq(ret.element, FMul(Fin(ret.unit), call.high))

\* C22 as stated: whenever DDPG.act adds exploration noise, the returned
\* element lies in [action_low, action_high], for every noise sample and
\* every mean action.
C22_ActionInBounds == NoiseAdded => InActionRange

\* C22: whenever DDPG.act adds exploration noise to a mean action that is not
\* NaN, the returned element lies in [action_low, action_high]: it is the
\* noisy action when that lies in the range and the bound it passed
\* otherwise.  A NaN mean action is returned as NaN, which lies in no range.
C22_ActionInBoundsUnlessNaN ==
    NoiseAdded =>
        IF call.mean.kind = "nan" THEN ret.element = NaN
        ELSE /\ InActionRange
             /\ ret.element \in {ret.noisy, FMul(Fin(ret.unit), call.low),
                                 FMul(Fin(ret.unit), call.high)}
             /\ (/\ FLeq(FMul(Fin(ret.unit), call.low), ret.noisy)
                 /\ FLeq(ret.noisy, FMul(Fin(ret.unit), call.high))) =>
                    ret.element = ret.noisy

\* the noise pushed a mean action that lay inside the range above the upper
\* bound, and the upper bound was returned
C22_Witness ==
    /\ NoiseAdded
    /\ call.mean = Fin(0)
    /\ call.high = Fin(1)
    /\ ~FLeq(ret.noisy, FMul(Fin(ret.unit), call.high))
    /\ ret.element = FMul(Fin(ret.unit), call.high)

(***************************************************************************)
(* SARSA's tabular update (checked under SpecTab).                         *)
(***************************************************************************)
\* the reward record_transition of timestep call.t stored
StoredReward ==
    IF cfg.rewards_shaper THEN rewards_shaper(call.rewards, call.t, cfg.timesteps)
    ELSE call.rewards

\* Q[e,s,a] + learning_rate * (r + discount_factor * (1-done) * Q[e,s',a'] - Q[e,s,a])
\* on the table before the update, in multiples of 1 / ret.unit
ClaimedEntry(e) ==
    LET q == ret.before[<<e, call.states[e], call.actions[e]>>]
        bootstrap == IF call.dones[e] THEN 0
                     ELSE discount_factor[1]
                            * ret.before[<<e, call.next_states[e], ret.next_actions[e]>>]
    IN  (learning_rate[2] - learning_rate[1]) * discount_factor[2] * q
            + learning_rate[1] * (ret.unit \div UnitFactor) * discount_factor[2] * StoredReward
            + learning_rate[1] * bootstrap

\* C21: a SARSA update at timestep t reads the states, actions, shaped
\* rewards, next_states and dones that record_transition stored at the same
\* timestep t, and with a' the policy's action in s' it changes, for each
\* environment e, only Q[e,s,a], to
\*     Q[e,s,a] + learning_rate * (r + discount_factor * (1-done) * Q[e,s',a'] - Q[e,s,a]);
\* every other entry keeps its value and for done = true the bootstrap term
\* is zero.  Before learning_starts the table is not changed at all.
C21_TabularUpdate ==
    (pc = "record" /\ ret.t >= 0) =>
        /\ call.t = ret.t
        /\ ret.updated = (ret.t >= cfg.learning_starts)
        /\ ret.updated =>
              /\ agent.current.states = call.states
              /\ agent.current.actions = call.actions
              /\ agent.current.rewards = StoredReward
              /\ agent.current.next_states = call.next_states
              /\ agent.current.dones = call.dones
              /\ \A i \in TabIndex :
                    ret.q_table[i] =
                        IF i[2] = call.states[i[1]] /\ i[3] = call.actions[i[1]]
                        THEN ClaimedEntry(i[1])
                        ELSE UnitFactor * ret.before[i]
        /\ ~ret.updated => (ret.q_table = ret.before /\ ret.unit = 1)

\* the second update of a run, on a table the first update had changed: the
\* first environment's transition was terminal, the second's was not, and
\* both entries got new values
C21_Witness ==
    /\ pc = "record"
    /\ ret.t = 1
    /\ ret.updated
    /\ cfg.learning_starts = 0
    /\ cfg.rewards_shaper
    /\ call.dones[1]
    /\ ret.before # [i \in TabIndex |-> UnitFactor * InitialTable[i]]
    /\ ret.q_table[<<1, call.states[1], call.actions[1]>>]
           # UnitFactor * ret.before[<<1, call.states[1], call.actions[1]>>]
    /\ ret.q_table[<<2, 0, 1>>] # UnitFactor * ret.before[<<2, 0, 1>>]

====
